---- MODULE Spec2Model ----
(***************************************************************************)
(* Model of the CRM mutation service (crm/mutations.py): customer, bulk    *)
(* customer, product and order creation over the entity store.             *)
(*                                                                         *)
(* Strings are sequences of one-character strings, so that strip(),        *)
(* lower() and the regular expressions are computed character by           *)
(* character.  An optional argument is None (the empty tuple) or Some(v)   *)
(* (the one-element tuple <<v>>).                                          *)
(*                                                                         *)
(* customers, products and orders are the committed rows of the store;     *)
(* last is the last call that ended and its outcome; calls holds the calls *)
(* in flight: the CreateOrder calls between their steps, the two bulk      *)
(* calls that run concurrently, and nothing when calls are made one after  *)
(* the other.                                                              *)
(***************************************************************************)
EXTENDS Integers, Sequences, FiniteSets, Bags, TLC

VARIABLES customers, products, orders, last, calls

vars == <<customers, products, orders, last, calls>>

----------------------------------------------------------------------------
(* Bounds of the model *)

\* longest list handed to BulkCreateCustomers
MaxBatch == 3
\* most products the store holds
MaxProducts == 2
\* most orders the store holds
MaxOrders == 2

----------------------------------------------------------------------------
(* Optional values *)

None == <<>>
Some(v) == <<v>>
IsNone(o) == o = <<>>
Val(o) == o[1]

\* an argument of a call: left out, or passed (None included)
Omitted == <<>>
Passed(o) == <<o>>
\* the value the parameter takes, given the default of the signature
ArgOr(arg, default) == IF arg = Omitted THEN default ELSE arg[1]

----------------------------------------------------------------------------
(* Python string functions and the regular expressions of the validators *)

\* the characters str.strip, int and \s of re take as whitespace: space,
\* \n, \t, \r, \f, then U+000B, U+001C to U+001F, U+0085, U+00A0, U+1680
Whitespace ==
    {" ", "\n", "\t", "\r", "\f", "", "", "", "", "", "", " ", " "}

\* the digits 0 to 9 of ASCII: [0-9] of a regular expression
Digits == {"0", "1", "2", "3", "4", "5", "6", "7", "8", "9"}

\* the decimal digits of every script, by value: DecimalDigits[v + 1] holds
\* the characters that int reads as the digit v
DecimalDigits ==
    <<{"0", "۰", "߀", "০", "૦", "௦", "೦", "෦", "໐", "႐", "០", "᧐", "᪀",
       "᪐", "᮰", "꣐", "꧐", "꧰", "꯰"},
      {"1", "۱", "߁", "১", "૧", "௧", "೧", "෧", "໑", "႑", "១", "᧑", "᪁",
       "᪑", "᮱", "꣑", "꧑", "꧱", "꯱"},
      {"2", "۲", "߂", "২", "૨", "௨", "೨", "෨", "໒", "႒", "២", "᧒", "᪂",
       "᪒", "᮲", "꣒", "꧒", "꧲", "꯲"},
      {"3", "۳", "߃", "৩", "૩", "௩", "೩", "෩", "໓", "႓", "៣", "᧓", "᪃",
       "᪓", "᮳", "꣓", "꧓", "꧳", "꯳"},
      {"4", "۴", "߄", "৪", "૪", "௪", "೪", "෪", "໔", "႔", "៤", "᧔", "᪄",
       "᪔", "᮴", "꣔", "꧔", "꧴", "꯴"},
      {"5", "۵", "߅", "৫", "૫", "௫", "೫", "෫", "໕", "႕", "៥", "᧕", "᪅",
       "᪕", "᮵", "꣕", "꧕", "꧵", "꯵"},
      {"6", "۶", "߆", "৬", "૬", "௬", "೬", "෬", "໖", "႖", "៦", "᧖", "᪆",
       "᪖", "᮶", "꣖", "꧖", "꧶", "꯶"},
      {"7", "۷", "߇", "৭", "૭", "௭", "೭", "෭", "໗", "႗", "៧", "᧗", "᪇",
       "᪗", "᮷", "꣗", "꧗", "꧷", "꯷"},
      {"8", "۸", "߈", "৮", "૮", "௮", "೮", "෮", "໘", "႘", "៨", "᧘", "᪈",
       "᪘", "᮸", "꣘", "꧘", "꧸", "꯸"},
      {"9", "۹", "߉", "৯", "૯", "௯", "೯", "෯", "໙", "႙", "៩", "᧙", "᪉",
       "᪙", "᮹", "꣙", "꧙", "꧹", "꯹"}>>

\* \d of re on a str: a decimal digit of any script
DecimalChars == UNION {DecimalDigits[v] : v \in 1..10}

\* the characters str.lower changes, and below what it changes each to.  A
\* lower-case form that no string of a module can hold is written by the name
\* of its code point, as "U+0253": one character, different from every other
UpperChars ==
    <<"A", "B", "C", "D", "E", "F", "G", "H", "I", "J", "K", "L", "M", "N",
      "O", "P", "Q", "R", "S", "T", "U", "V", "W", "X", "Y", "Z", "À", "Á",
      "Â", "Ã", "Ä", "Å", "Æ", "Ç", "È", "É", "Ê", "Ë", "Ì", "Í", "Î", "Ï",
      "Ð", "Ñ", "Ò", "Ó", "Ô", "Õ", "Ö", "Ø", "Ù", "Ú", "Û", "Ü", "Ý", "Þ",
      "Ɓ", "Ƃ", "Ƅ", "Ɔ", "Ƈ", "Ɖ", "Ɗ", "Ƌ", "Ǝ", "Ə", "Ɛ", "Ƒ", "Ɠ", "Ɣ",
      "Ɩ", "Ɨ", "Ƙ", "Ɯ", "Ɲ", "Ɵ", "Ơ", "Ƣ", "Ƥ", "Ʀ", "Ƨ", "Ʃ", "Ƭ", "Ʈ",
      "Ư", "Ʊ", "Ʋ", "Ƴ", "Ƶ", "Ʒ", "Ƹ", "Ƽ", "Ǆ", "ǅ", "Ǉ", "ǈ", "Ǌ", "ǋ",
      "Ǎ", "Ǐ", "Ǒ", "Ǔ", "Ǖ", "Ǘ", "Ǚ", "Ǜ", "Ǟ", "Ǡ", "Ǣ", "Ǥ", "Ǧ", "Ǩ",
      "Ǫ", "Ǭ", "Ǯ", "Ǳ", "ǲ", "Ǵ", "Ƕ", "Ƿ", "Ǹ", "Ǻ", "Ǽ", "Ǿ", "Ά", "Έ",
      "Ή", "Ί", "Ό", "Ύ", "Ώ", "Α", "Β", "Γ", "Δ", "Ε", "Ζ", "Η", "Θ", "Ι",
      "Κ", "Λ", "Μ", "Ν", "Ξ", "Ο", "Π", "Ρ", "Σ", "Τ", "Υ", "Φ", "Χ", "Ψ",
      "Ω", "Ϊ", "Ϋ", "Ϗ", "Ϙ", "Ϛ", "Ϝ", "Ϟ", "Ϡ", "Ϣ", "Ϥ", "Ϧ", "Ϩ", "Ϫ",
      "Ϭ", "Ϯ", "ϴ", "Ϸ", "Ϲ", "Ϻ", "Ͻ", "Ͼ", "Ͽ", "Ҁ", "Ҋ", "Ҍ", "Ҏ", "Ґ",
      "Ғ", "Ҕ", "Җ", "Ҙ", "Қ", "Ҝ", "Ҟ", "Ҡ", "Ң", "Ҥ", "Ҧ", "Ҩ", "Ҫ", "Ҭ",
      "Ү", "Ұ", "Ҳ", "Ҵ", "Ҷ", "Ҹ", "Һ", "Ҽ", "Ҿ", "Ӏ", "Ӂ", "Ӄ", "Ӆ", "Ӈ",
      "Ӊ", "Ӌ", "Ӎ", "Ӑ", "Ӓ", "Ӕ", "Ӗ", "Ә", "Ӛ", "Ӝ", "Ӟ", "Ӡ", "Ӣ", "Ӥ",
      "Ӧ", "Ө", "Ӫ", "Ӭ", "Ӯ", "Ӱ", "Ӳ", "Ӵ", "Ӷ", "Ӹ", "Ӻ", "Ӽ", "Ӿ", "Ⴀ",
      "Ⴁ", "Ⴂ", "Ⴃ", "Ⴄ", "Ⴅ", "Ⴆ", "Ⴇ", "Ⴈ", "Ⴉ", "Ⴊ", "Ⴋ", "Ⴌ", "Ⴍ", "Ⴎ",
      "Ⴏ", "Ⴐ", "Ⴑ", "Ⴒ", "Ⴓ", "Ⴔ", "Ⴕ", "Ⴖ", "Ⴗ", "Ⴘ", "Ⴙ", "Ⴚ", "Ⴛ", "Ⴜ",
      "Ⴝ", "Ⴞ", "Ⴟ", "Ⴠ", "Ⴡ", "Ⴢ", "Ⴣ", "Ⴤ", "Ⴥ", "Ⴧ", "Ⴭ", "Ꭰ", "Ꭱ", "Ꭲ",
      "Ꭳ", "Ꭴ", "Ꭵ", "Ꭶ", "Ꭷ", "Ꭸ", "Ꭹ", "Ꭺ", "Ꭻ", "Ꭼ", "Ꭽ", "Ꭾ", "Ꭿ", "Ꮀ",
      "Ꮁ", "Ꮂ", "Ꮃ", "Ꮄ", "Ꮅ", "Ꮆ", "Ꮇ", "Ꮈ", "Ꮉ", "Ꮊ", "Ꮋ", "Ꮌ", "Ꮍ", "Ꮎ",
      "Ꮏ", "Ꮐ", "Ꮑ", "Ꮒ", "Ꮓ", "Ꮔ", "Ꮕ", "Ꮖ", "Ꮗ", "Ꮘ", "Ꮙ", "Ꮚ", "Ꮛ", "Ꮜ",
      "Ꮝ", "Ꮞ", "Ꮟ", "Ꮠ", "Ꮡ", "Ꮢ", "Ꮣ", "Ꮤ", "Ꮥ", "Ꮦ", "Ꮧ", "Ꮨ", "Ꮩ", "Ꮪ",
      "Ꮫ", "Ꮬ", "Ꮭ", "Ꮮ", "Ꮯ", "Ꮰ", "Ꮱ", "Ꮲ", "Ꮳ", "Ꮴ", "Ꮵ", "Ꮶ", "Ꮷ", "Ꮸ",
      "Ꮹ", "Ꮺ", "Ꮻ", "Ꮼ", "Ꮽ", "Ꮾ", "Ꮿ", "Ᏸ", "Ᏹ", "Ᏺ", "Ᏻ", "Ᏼ", "Ᏽ", "Ა",
      "Ბ", "Გ", "Დ", "Ე", "Ვ", "Ზ", "Თ", "Ი", "Კ", "Ლ", "Მ", "Ნ", "Ო", "Პ",
      "Ჟ", "Რ", "Ს", "Ტ", "Უ", "Ფ", "Ქ", "Ღ", "Ყ", "Შ", "Ჩ", "Ც", "Ძ", "Წ",
      "Ჭ", "Ხ", "Ჯ", "Ჰ", "Ჱ", "Ჲ", "Ჳ", "Ჴ", "Ჵ", "Ჶ", "Ჷ", "Ჸ", "Ჹ", "Ჺ",
      "Ჽ", "Ჾ", "Ჿ", "Ẁ", "Ẃ", "Ẅ", "Ẇ", "Ẉ", "Ẋ", "Ẍ", "Ẏ", "Ẑ", "Ẓ", "Ẕ",
      "ẞ", "Ạ", "Ả", "Ấ", "Ầ", "Ẩ", "Ẫ", "Ậ", "Ắ", "Ằ", "Ẳ", "Ẵ", "Ặ", "Ẹ",
      "Ẻ", "Ẽ", "Ế", "Ề", "Ể", "Ễ", "Ệ", "Ỉ", "Ị", "Ọ", "Ỏ", "Ố", "Ồ", "Ổ",
      "Ỗ", "Ộ", "Ớ", "Ờ", "Ở", "Ỡ", "Ợ", "Ụ", "Ủ", "Ứ", "Ừ", "Ử", "Ữ", "Ự",
      "Ỳ", "Ỵ", "Ỷ", "Ỹ", "Ỻ", "Ỽ", "Ỿ", "ᾈ", "ᾉ", "ᾊ", "ᾋ", "ᾌ", "ᾍ", "ᾎ",
      "ᾏ", "ᾘ", "ᾙ", "ᾚ", "ᾛ", "ᾜ", "ᾝ", "ᾞ", "ᾟ", "ᾨ", "ᾩ", "ᾪ", "ᾫ", "ᾬ",
      "ᾭ", "ᾮ", "ᾯ", "Ᾰ", "Ᾱ", "Ὰ", "Ά", "ᾼ", "Ὲ", "Έ", "Ὴ", "Ή", "ῌ", "Ῐ",
      "Ῑ", "Ὶ", "Ί", "Ῠ", "Ῡ", "Ὺ", "Ύ", "Ῥ", "Ὸ", "Ό", "Ὼ", "Ώ", "ῼ", "Ↄ",
      "Ⓐ", "Ⓑ", "Ⓒ", "Ⓓ", "Ⓔ", "Ⓕ", "Ⓖ", "Ⓗ", "Ⓘ", "Ⓙ", "Ⓚ", "Ⓛ", "Ⓜ", "Ⓝ",
      "Ⓞ", "Ⓟ", "Ⓠ", "Ⓡ", "Ⓢ", "Ⓣ", "Ⓤ", "Ⓥ", "Ⓦ", "Ⓧ", "Ⓨ", "Ⓩ", "Ⲁ", "Ⲃ",
      "Ⲅ", "Ⲇ", "Ⲉ", "Ⲋ", "Ⲍ", "Ⲏ", "Ⲑ", "Ⲓ", "Ⲕ", "Ⲗ", "Ⲙ", "Ⲛ", "Ⲝ", "Ⲟ",
      "Ⲡ", "Ⲣ", "Ⲥ", "Ⲧ", "Ⲩ", "Ⲫ", "Ⲭ", "Ⲯ", "Ⲱ", "Ⲳ", "Ⲵ", "Ⲷ", "Ⲹ", "Ⲻ",
      "Ⲽ", "Ⲿ", "Ⳁ", "Ⳃ", "Ⳅ", "Ⳇ", "Ⳉ", "Ⳋ", "Ⳍ", "Ⳏ", "Ⳑ", "Ⳓ", "Ⳕ", "Ⳗ",
      "Ⳙ", "Ⳛ", "Ⳝ", "Ⳟ", "Ⳡ", "Ⳣ", "Ⳬ", "Ⳮ", "Ⳳ", "Ꚁ", "Ꚃ", "Ꚅ", "Ꚇ", "Ꚉ",
      "Ꚋ", "Ꚍ", "Ꚏ", "Ꚑ", "Ꚓ", "Ꚕ", "Ꚗ", "Ꚙ", "Ꚛ", "Ꞁ", "Ꞃ", "Ꞅ", "Ꞇ", "Ꞌ",
      "Ɥ", "Ꞑ", "Ꞓ", "Ꞗ", "Ꞙ", "Ꞛ", "Ꞝ", "Ꞟ", "Ꞡ", "Ꞣ", "Ꞥ", "Ꞧ", "Ꞩ", "Ɦ",
      "Ɜ", "Ɡ", "Ɬ", "Ɪ", "Ʞ", "Ʇ", "Ʝ", "Ꭓ", "Ꞵ", "Ꞷ", "Ꞹ", "Ꞻ", "Ꞽ", "Ꞿ",
      "Ꟁ", "Ꟃ", "Ꞔ", "Ʂ", "Ᶎ", "Ꟈ", "Ꟊ", "Ꟑ", "Ꟗ", "Ꟙ", "Ꟶ">>

LowerChars ==
    <<"a", "b", "c", "d", "e", "f", "g", "h", "i", "j", "k", "l", "m", "n",
      "o", "p", "q", "r", "s", "t", "u", "v", "w", "x", "y", "z", "à", "á",
      "â", "ã", "ä", "å", "æ", "ç", "è", "é", "ê", "ë", "ì", "í", "î", "ï",
      "ð", "ñ", "ò", "ó", "ô", "õ", "ö", "ø", "ù", "ú", "û", "ü", "ý", "þ",
      "U+0253", "ƃ", "ƅ", "U+0254", "ƈ", "U+0256", "U+0257", "ƌ", "ǝ",
      "U+0259", "U+025B", "ƒ", "U+0260", "U+0263", "U+0269", "U+0268", "ƙ",
      "U+026F", "U+0272", "U+0275", "ơ", "ƣ", "ƥ", "ʀ", "ƨ", "ʃ", "ƭ", "ʈ",
      "ư", "ʊ", "ʋ", "ƴ", "ƶ", "ʒ", "ƹ", "ƽ", "ǆ", "ǆ", "ǉ", "ǉ", "ǌ", "ǌ",
      "ǎ", "ǐ", "ǒ", "ǔ", "ǖ", "ǘ", "ǚ", "ǜ", "ǟ", "ǡ", "ǣ", "ǥ", "ǧ", "ǩ",
      "ǫ", "ǭ", "ǯ", "ǳ", "ǳ", "ǵ", "ƕ", "ƿ", "ǹ", "ǻ", "ǽ", "ǿ", "ά", "έ",
      "ή", "ί", "ό", "ύ", "ώ", "α", "β", "γ", "δ", "ε", "ζ", "η", "θ", "ι",
      "κ", "λ", "μ", "ν", "ξ", "ο", "π", "ρ", "σ", "τ", "υ", "φ", "χ", "ψ",
      "ω", "ϊ", "ϋ", "ϗ", "ϙ", "ϛ", "ϝ", "ϟ", "ϡ", "ϣ", "ϥ", "ϧ", "ϩ", "ϫ",
      "ϭ", "ϯ", "θ", "ϸ", "ϲ", "ϻ", "U+037B", "U+037C", "U+037D", "ҁ", "ҋ",
      "ҍ", "ҏ", "ґ", "ғ", "ҕ", "җ", "ҙ", "қ", "ҝ", "ҟ", "ҡ", "ң", "ҥ", "ҧ",
      "ҩ", "ҫ", "ҭ", "ү", "ұ", "ҳ", "ҵ", "ҷ", "ҹ", "һ", "ҽ", "ҿ", "ӏ", "ӂ",
      "ӄ", "ӆ", "ӈ", "ӊ", "ӌ", "ӎ", "ӑ", "ӓ", "ӕ", "ӗ", "ә", "ӛ", "ӝ", "ӟ",
      "ӡ", "ӣ", "ӥ", "ӧ", "ө", "ӫ", "ӭ", "ӯ", "ӱ", "ӳ", "ӵ", "ӷ", "ӹ", "ӻ",
      "ӽ", "ӿ", "U+2D00", "U+2D01", "U+2D02", "U+2D03", "U+2D04", "U+2D05",
      "U+2D06", "U+2D07", "U+2D08", "U+2D09", "U+2D0A", "U+2D0B", "U+2D0C",
      "U+2D0D", "U+2D0E", "U+2D0F", "U+2D10", "U+2D11", "U+2D12", "U+2D13",
      "U+2D14", "U+2D15", "U+2D16", "U+2D17", "U+2D18", "U+2D19", "U+2D1A",
      "U+2D1B", "U+2D1C", "U+2D1D", "U+2D1E", "U+2D1F", "U+2D20", "U+2D21",
      "U+2D22", "U+2D23", "U+2D24", "U+2D25", "U+2D27", "U+2D2D", "U+AB70",
      "U+AB71", "U+AB72", "U+AB73", "U+AB74", "U+AB75", "U+AB76", "U+AB77",
      "U+AB78", "U+AB79", "U+AB7A", "U+AB7B", "U+AB7C", "U+AB7D", "U+AB7E",
      "U+AB7F", "ꮀ", "ꮁ", "ꮂ", "ꮃ", "ꮄ", "ꮅ", "ꮆ", "ꮇ", "ꮈ", "ꮉ", "ꮊ", "ꮋ",
      "ꮌ", "ꮍ", "ꮎ", "ꮏ", "ꮐ", "ꮑ", "ꮒ", "ꮓ", "ꮔ", "ꮕ", "ꮖ", "ꮗ", "ꮘ", "ꮙ",
      "ꮚ", "ꮛ", "ꮜ", "ꮝ", "ꮞ", "ꮟ", "ꮠ", "ꮡ", "ꮢ", "ꮣ", "ꮤ", "ꮥ", "ꮦ", "ꮧ",
      "ꮨ", "ꮩ", "ꮪ", "ꮫ", "ꮬ", "ꮭ", "ꮮ", "ꮯ", "ꮰ", "ꮱ", "ꮲ", "ꮳ", "ꮴ", "ꮵ",
      "ꮶ", "ꮷ", "ꮸ", "ꮹ", "ꮺ", "ꮻ", "ꮼ", "ꮽ", "ꮾ", "ꮿ", "ᏸ", "ᏹ", "ᏺ", "ᏻ",
      "ᏼ", "ᏽ", "ა", "ბ", "გ", "დ", "ე", "ვ", "ზ", "თ", "ი", "კ", "ლ", "მ",
      "ნ", "ო", "პ", "ჟ", "რ", "ს", "ტ", "უ", "ფ", "ქ", "ღ", "ყ", "შ", "ჩ",
      "ც", "ძ", "წ", "ჭ", "ხ", "ჯ", "ჰ", "ჱ", "ჲ", "ჳ", "ჴ", "ჵ", "ჶ", "ჷ",
      "ჸ", "ჹ", "ჺ", "ჽ", "ჾ", "ჿ", "ẁ", "ẃ", "ẅ", "ẇ", "ẉ", "ẋ", "ẍ", "ẏ",
      "ẑ", "ẓ", "ẕ", "ß", "ạ", "ả", "ấ", "ầ", "ẩ", "ẫ", "ậ", "ắ", "ằ", "ẳ",
      "ẵ", "ặ", "ẹ", "ẻ", "ẽ", "ế", "ề", "ể", "ễ", "ệ", "ỉ", "ị", "ọ", "ỏ",
      "ố", "ồ", "ổ", "ỗ", "ộ", "ớ", "ờ", "ở", "ỡ", "ợ", "ụ", "ủ", "ứ", "ừ",
      "ử", "ữ", "ự", "ỳ", "ỵ", "ỷ", "ỹ", "ỻ", "ỽ", "ỿ", "ᾀ", "ᾁ", "ᾂ", "ᾃ",
      "ᾄ", "ᾅ", "ᾆ", "ᾇ", "ᾐ", "ᾑ", "ᾒ", "ᾓ", "ᾔ", "ᾕ", "ᾖ", "ᾗ", "ᾠ", "ᾡ",
      "ᾢ", "ᾣ", "ᾤ", "ᾥ", "ᾦ", "ᾧ", "ᾰ", "ᾱ", "U+1F70", "U+1F71", "ᾳ",
      "U+1F72", "U+1F73", "U+1F74", "U+1F75", "ῃ", "ῐ", "ῑ", "U+1F76",
      "U+1F77", "ῠ", "ῡ", "U+1F7A", "U+1F7B", "ῥ", "U+1F78", "U+1F79",
      "U+1F7C", "U+1F7D", "ῳ", "ↄ", "ⓐ", "ⓑ", "ⓒ", "ⓓ", "ⓔ", "ⓕ", "ⓖ", "ⓗ",
      "ⓘ", "ⓙ", "ⓚ", "ⓛ", "ⓜ", "ⓝ", "ⓞ", "ⓟ", "ⓠ", "ⓡ", "ⓢ", "ⓣ", "ⓤ", "ⓥ",
      "ⓦ", "ⓧ", "ⓨ", "ⓩ", "ⲁ", "ⲃ", "ⲅ", "ⲇ", "ⲉ", "ⲋ", "ⲍ", "ⲏ", "ⲑ", "ⲓ",
      "ⲕ", "ⲗ", "ⲙ", "ⲛ", "ⲝ", "ⲟ", "ⲡ", "ⲣ", "ⲥ", "ⲧ", "ⲩ", "ⲫ", "ⲭ", "ⲯ",
      "ⲱ", "ⲳ", "ⲵ", "ⲷ", "ⲹ", "ⲻ", "ⲽ", "ⲿ", "ⳁ", "ⳃ", "ⳅ", "ⳇ", "ⳉ", "ⳋ",
      "ⳍ", "ⳏ", "ⳑ", "ⳓ", "ⳕ", "ⳗ", "ⳙ", "ⳛ", "ⳝ", "ⳟ", "ⳡ", "ⳣ", "ⳬ", "ⳮ",
      "ⳳ", "ꚁ", "ꚃ", "ꚅ", "ꚇ", "ꚉ", "ꚋ", "ꚍ", "ꚏ", "ꚑ", "ꚓ", "ꚕ", "ꚗ", "ꚙ",
      "ꚛ", "ꞁ", "ꞃ", "ꞅ", "ꞇ", "ꞌ", "U+0265", "ꞑ", "ꞓ", "ꞗ", "ꞙ", "ꞛ", "ꞝ",
      "ꞟ", "ꞡ", "ꞣ", "ꞥ", "ꞧ", "ꞩ", "U+0266", "U+025C", "U+0261", "U+026C",
      "U+026A", "ʞ", "ʇ", "ʝ", "U+AB53", "ꞵ", "ꞷ", "ꞹ", "ꞻ", "ꞽ", "ꞿ", "ꟁ",
      "ꟃ", "ꞔ", "ʂ", "ᶎ", "ꟈ", "ꟊ", "ꟑ", "ꟗ", "ꟙ", "ꟶ">>

\* str.lower of one character, as a function on the characters it changes
LowerOf ==
    [c \in {UpperChars[i] : i \in 1..Len(UpperChars)} |->
        LowerChars[CHOOSE i \in 1..Len(UpperChars) : UpperChars[i] = c]]

LowerChar(c) == IF c \in DOMAIN LowerOf THEN LowerOf[c] ELSE c

\* the cased characters that are not case-ignorable
CasedChars ==
    {"A", "B", "C", "D", "E", "F", "G", "H", "I", "J", "K", "L", "M", "N",
     "O", "P", "Q", "R", "S", "T", "U", "V", "W", "X", "Y", "Z", "a", "b",
     "c", "d", "e", "f", "g", "h", "i", "j", "k", "l", "m", "n", "o", "p",
     "q", "r", "s", "t", "u", "v", "w", "x", "y", "z", "ª", "µ", "º", "À",
     "Á", "Â", "Ã", "Ä", "Å", "Æ", "Ç", "È", "É", "Ê", "Ë", "Ì", "Í", "Î",
     "Ï", "Ð", "Ñ", "Ò", "Ó", "Ô", "Õ", "Ö", "Ø", "Ù", "Ú", "Û", "Ü", "Ý",
     "Þ", "ß", "à", "á", "â", "ã", "ä", "å", "æ", "ç", "è", "é", "ê", "ë",
     "ì", "í", "î", "ï", "ð", "ñ", "ò", "ó", "ô", "õ", "ö", "ø", "ù", "ú",
     "û", "ü", "ý", "þ", "ÿ", "ƀ", "Ɓ", "Ƃ", "ƃ", "Ƅ", "ƅ", "Ɔ", "Ƈ", "ƈ",
     "Ɖ", "Ɗ", "Ƌ", "ƌ", "ƍ", "Ǝ", "Ə", "Ɛ", "Ƒ", "ƒ", "Ɠ", "Ɣ", "ƕ", "Ɩ",
     "Ɨ", "Ƙ", "ƙ", "ƚ", "ƛ", "Ɯ", "Ɲ", "ƞ", "Ɵ", "Ơ", "ơ", "Ƣ", "ƣ", "Ƥ",
     "ƥ", "Ʀ", "Ƨ", "ƨ", "Ʃ", "ƪ", "ƫ", "Ƭ", "ƭ", "Ʈ", "Ư", "ư", "Ʊ", "Ʋ",
     "Ƴ", "ƴ", "Ƶ", "ƶ", "Ʒ", "Ƹ", "ƹ", "ƺ", "Ƽ", "ƽ", "ƾ", "ƿ", "Ǆ", "ǅ",
     "ǆ", "Ǉ", "ǈ", "ǉ", "Ǌ", "ǋ", "ǌ", "Ǎ", "ǎ", "Ǐ", "ǐ", "Ǒ", "ǒ", "Ǔ",
     "ǔ", "Ǖ", "ǖ", "Ǘ", "ǘ", "Ǚ", "ǚ", "Ǜ", "ǜ", "ǝ", "Ǟ", "ǟ", "Ǡ", "ǡ",
     "Ǣ", "ǣ", "Ǥ", "ǥ", "Ǧ", "ǧ", "Ǩ", "ǩ", "Ǫ", "ǫ", "Ǭ", "ǭ", "Ǯ", "ǯ",
     "ǰ", "Ǳ", "ǲ", "ǳ", "Ǵ", "ǵ", "Ƕ", "Ƿ", "Ǹ", "ǹ", "Ǻ", "ǻ", "Ǽ", "ǽ",
     "Ǿ", "ǿ", "ʀ", "ʁ", "ʂ", "ʃ", "ʄ", "ʅ", "ʆ", "ʇ", "ʈ", "ʉ", "ʊ", "ʋ",
     "ʌ", "ʍ", "ʎ", "ʏ", "ʐ", "ʑ", "ʒ", "ʓ", "ʕ", "ʖ", "ʗ", "ʘ", "ʙ", "ʚ",
     "ʛ", "ʜ", "ʝ", "ʞ", "ʟ", "ʠ", "ʡ", "ʢ", "ʣ", "ʤ", "ʥ", "ʦ", "ʧ", "ʨ",
     "ʩ", "ʪ", "ʫ", "ʬ", "ʭ", "ʮ", "ʯ", "Ά", "Έ", "Ή", "Ί", "Ό", "Ύ", "Ώ",
     "ΐ", "Α", "Β", "Γ", "Δ", "Ε", "Ζ", "Η", "Θ", "Ι", "Κ", "Λ", "Μ", "Ν",
     "Ξ", "Ο", "Π", "Ρ", "Σ", "Τ", "Υ", "Φ", "Χ", "Ψ", "Ω", "Ϊ", "Ϋ", "ά",
     "έ", "ή", "ί", "ΰ", "α", "β", "γ", "δ", "ε", "ζ", "η", "θ", "ι", "κ",
     "λ", "μ", "ν", "ξ", "ο", "π", "ρ", "ς", "σ", "τ", "υ", "φ", "χ", "ψ",
     "ω", "ϊ", "ϋ", "ό", "ύ", "ώ", "Ϗ", "ϐ", "ϑ", "ϒ", "ϓ", "ϔ", "ϕ", "ϖ",
     "ϗ", "Ϙ", "ϙ", "Ϛ", "ϛ", "Ϝ", "ϝ", "Ϟ", "ϟ", "Ϡ", "ϡ", "Ϣ", "ϣ", "Ϥ",
     "ϥ", "Ϧ", "ϧ", "Ϩ", "ϩ", "Ϫ", "ϫ", "Ϭ", "ϭ", "Ϯ", "ϯ", "ϰ", "ϱ", "ϲ",
     "ϳ", "ϴ", "ϵ", "Ϸ", "ϸ", "Ϲ", "Ϻ", "ϻ", "ϼ", "Ͻ", "Ͼ", "Ͽ", "Ҁ", "ҁ",
     "Ҋ", "ҋ", "Ҍ", "ҍ", "Ҏ", "ҏ", "Ґ", "ґ", "Ғ", "ғ", "Ҕ", "ҕ", "Җ", "җ",
     "Ҙ", "ҙ", "Қ", "қ", "Ҝ", "ҝ", "Ҟ", "ҟ", "Ҡ", "ҡ", "Ң", "ң", "Ҥ", "ҥ",
     "Ҧ", "ҧ", "Ҩ", "ҩ", "Ҫ", "ҫ", "Ҭ", "ҭ", "Ү", "ү", "Ұ", "ұ", "Ҳ", "ҳ",
     "Ҵ", "ҵ", "Ҷ", "ҷ", "Ҹ", "ҹ", "Һ", "һ", "Ҽ", "ҽ", "Ҿ", "ҿ", "Ӏ", "Ӂ",
     "ӂ", "Ӄ", "ӄ", "Ӆ", "ӆ", "Ӈ", "ӈ", "Ӊ", "ӊ", "Ӌ", "ӌ", "Ӎ", "ӎ", "ӏ",
     "Ӑ", "ӑ", "Ӓ", "ӓ", "Ӕ", "ӕ", "Ӗ", "ӗ", "Ә", "ә", "Ӛ", "ӛ", "Ӝ", "ӝ",
     "Ӟ", "ӟ", "Ӡ", "ӡ", "Ӣ", "ӣ", "Ӥ", "ӥ", "Ӧ", "ӧ", "Ө", "ө", "Ӫ", "ӫ",
     "Ӭ", "ӭ", "Ӯ", "ӯ", "Ӱ", "ӱ", "Ӳ", "ӳ", "Ӵ", "ӵ", "Ӷ", "ӷ", "Ӹ", "ӹ",
     "Ӻ", "ӻ", "Ӽ", "ӽ", "Ӿ", "ӿ", "ր", "ց", "ւ", "փ", "ք", "օ", "ֆ", "և",
     "ֈ", "Ⴀ", "Ⴁ", "Ⴂ", "Ⴃ", "Ⴄ", "Ⴅ", "Ⴆ", "Ⴇ", "Ⴈ", "Ⴉ", "Ⴊ", "Ⴋ", "Ⴌ",
     "Ⴍ", "Ⴎ", "Ⴏ", "Ⴐ", "Ⴑ", "Ⴒ", "Ⴓ", "Ⴔ", "Ⴕ", "Ⴖ", "Ⴗ", "Ⴘ", "Ⴙ", "Ⴚ",
     "Ⴛ", "Ⴜ", "Ⴝ", "Ⴞ", "Ⴟ", "Ⴠ", "Ⴡ", "Ⴢ", "Ⴣ", "Ⴤ", "Ⴥ", "Ⴧ", "Ⴭ", "ა",
     "ბ", "გ", "დ", "ე", "ვ", "ზ", "თ", "ი", "კ", "ლ", "მ", "ნ", "ო", "პ",
     "ჟ", "რ", "ს", "ტ", "უ", "ფ", "ქ", "ღ", "ყ", "შ", "ჩ", "ც", "ძ", "წ",
     "ჭ", "ხ", "ჯ", "ჰ", "ჱ", "ჲ", "ჳ", "ჴ", "ჵ", "ჶ", "ჷ", "ჸ", "ჹ", "ჺ",
     "ჽ", "ჾ", "ჿ", "Ꭰ", "Ꭱ", "Ꭲ", "Ꭳ", "Ꭴ", "Ꭵ", "Ꭶ", "Ꭷ", "Ꭸ", "Ꭹ", "Ꭺ",
     "Ꭻ", "Ꭼ", "Ꭽ", "Ꭾ", "Ꭿ", "Ꮀ", "Ꮁ", "Ꮂ", "Ꮃ", "Ꮄ", "Ꮅ", "Ꮆ", "Ꮇ", "Ꮈ",
     "Ꮉ", "Ꮊ", "Ꮋ", "Ꮌ", "Ꮍ", "Ꮎ", "Ꮏ", "Ꮐ", "Ꮑ", "Ꮒ", "Ꮓ", "Ꮔ", "Ꮕ", "Ꮖ",
     "Ꮗ", "Ꮘ", "Ꮙ", "Ꮚ", "Ꮛ", "Ꮜ", "Ꮝ", "Ꮞ", "Ꮟ", "Ꮠ", "Ꮡ", "Ꮢ", "Ꮣ", "Ꮤ",
     "Ꮥ", "Ꮦ", "Ꮧ", "Ꮨ", "Ꮩ", "Ꮪ", "Ꮫ", "Ꮬ", "Ꮭ", "Ꮮ", "Ꮯ", "Ꮰ", "Ꮱ", "Ꮲ",
     "Ꮳ", "Ꮴ", "Ꮵ", "Ꮶ", "Ꮷ", "Ꮸ", "Ꮹ", "Ꮺ", "Ꮻ", "Ꮼ", "Ꮽ", "Ꮾ", "Ꮿ", "Ᏸ",
     "Ᏹ", "Ᏺ", "Ᏻ", "Ᏼ", "Ᏽ", "ᏸ", "ᏹ", "ᏺ", "ᏻ", "ᏼ", "ᏽ", "ᲀ", "ᲁ", "ᲂ",
     "ᲃ", "ᲄ", "ᲅ", "ᲆ", "ᲇ", "ᲈ", "Ა", "Ბ", "Გ", "Დ", "Ე", "Ვ", "Ზ", "Თ",
     "Ი", "Კ", "Ლ", "Მ", "Ნ", "Ო", "Პ", "Ჟ", "Რ", "Ს", "Ტ", "Უ", "Ფ", "Ქ",
     "Ღ", "Ყ", "Შ", "Ჩ", "Ც", "Ძ", "Წ", "Ჭ", "Ხ", "Ჯ", "Ჰ", "Ჱ", "Ჲ", "Ჳ",
     "Ჴ", "Ჵ", "Ჶ", "Ჷ", "Ჸ", "Ჹ", "Ჺ", "Ჽ", "Ჾ", "Ჿ", "ᶀ", "ᶁ", "ᶂ", "ᶃ",
     "ᶄ", "ᶅ", "ᶆ", "ᶇ", "ᶈ", "ᶉ", "ᶊ", "ᶋ", "ᶌ", "ᶍ", "ᶎ", "ᶏ", "ᶐ", "ᶑ",
     "ᶒ", "ᶓ", "ᶔ", "ᶕ", "ᶖ", "ᶗ", "ᶘ", "ᶙ", "ᶚ", "Ẁ", "ẁ", "Ẃ", "ẃ", "Ẅ",
     "ẅ", "Ẇ", "ẇ", "Ẉ", "ẉ", "Ẋ", "ẋ", "Ẍ", "ẍ", "Ẏ", "ẏ", "Ẑ", "ẑ", "Ẓ",
     "ẓ", "Ẕ", "ẕ", "ẖ", "ẗ", "ẘ", "ẙ", "ẚ", "ẛ", "ẜ", "ẝ", "ẞ", "ẟ", "Ạ",
     "ạ", "Ả", "ả", "Ấ", "ấ", "Ầ", "ầ", "Ẩ", "ẩ", "Ẫ", "ẫ", "Ậ", "ậ", "Ắ",
     "ắ", "Ằ", "ằ", "Ẳ", "ẳ", "Ẵ", "ẵ", "Ặ", "ặ", "Ẹ", "ẹ", "Ẻ", "ẻ", "Ẽ",
     "ẽ", "Ế", "ế", "Ề", "ề", "Ể", "ể", "Ễ", "ễ", "Ệ", "ệ", "Ỉ", "ỉ", "Ị",
     "ị", "Ọ", "ọ", "Ỏ", "ỏ", "Ố", "ố", "Ồ", "ồ", "Ổ", "ổ", "Ỗ", "ỗ", "Ộ",
     "ộ", "Ớ", "ớ", "Ờ", "ờ", "Ở", "ở", "Ỡ", "ỡ", "Ợ", "ợ", "Ụ", "ụ", "Ủ",
     "ủ", "Ứ", "ứ", "Ừ", "ừ", "Ử", "ử", "Ữ", "ữ", "Ự", "ự", "Ỳ", "ỳ", "Ỵ",
     "ỵ", "Ỷ", "ỷ", "Ỹ", "ỹ", "Ỻ", "ỻ", "Ỽ", "ỽ", "Ỿ", "ỿ", "ᾀ", "ᾁ", "ᾂ",
     "ᾃ", "ᾄ", "ᾅ", "ᾆ", "ᾇ", "ᾈ", "ᾉ", "ᾊ", "ᾋ", "ᾌ", "ᾍ", "ᾎ", "ᾏ", "ᾐ",
     "ᾑ", "ᾒ", "ᾓ", "ᾔ", "ᾕ", "ᾖ", "ᾗ", "ᾘ", "ᾙ", "ᾚ", "ᾛ", "ᾜ", "ᾝ", "ᾞ",
     "ᾟ", "ᾠ", "ᾡ", "ᾢ", "ᾣ", "ᾤ", "ᾥ", "ᾦ", "ᾧ", "ᾨ", "ᾩ", "ᾪ", "ᾫ", "ᾬ",
     "ᾭ", "ᾮ", "ᾯ", "ᾰ", "ᾱ", "ᾲ", "ᾳ", "ᾴ", "ᾶ", "ᾷ", "Ᾰ", "Ᾱ", "Ὰ", "Ά",
     "ᾼ", "ι", "ῂ", "ῃ", "ῄ", "ῆ", "ῇ", "Ὲ", "Έ", "Ὴ", "Ή", "ῌ", "ῐ", "ῑ",
     "ῒ", "ΐ", "ῖ", "ῗ", "Ῐ", "Ῑ", "Ὶ", "Ί", "ῠ", "ῡ", "ῢ", "ΰ", "ῤ", "ῥ",
     "ῦ", "ῧ", "Ῠ", "Ῡ", "Ὺ", "Ύ", "Ῥ", "ῲ", "ῳ", "ῴ", "ῶ", "ῷ", "Ὸ", "Ό",
     "Ὼ", "Ώ", "ῼ", "Ↄ", "ↄ", "Ⓐ", "Ⓑ", "Ⓒ", "Ⓓ", "Ⓔ", "Ⓕ", "Ⓖ", "Ⓗ", "Ⓘ",
     "Ⓙ", "Ⓚ", "Ⓛ", "Ⓜ", "Ⓝ", "Ⓞ", "Ⓟ", "Ⓠ", "Ⓡ", "Ⓢ", "Ⓣ", "Ⓤ", "Ⓥ", "Ⓦ",
     "Ⓧ", "Ⓨ", "Ⓩ", "ⓐ", "ⓑ", "ⓒ", "ⓓ", "ⓔ", "ⓕ", "ⓖ", "ⓗ", "ⓘ", "ⓙ", "ⓚ",
     "ⓛ", "ⓜ", "ⓝ", "ⓞ", "ⓟ", "ⓠ", "ⓡ", "ⓢ", "ⓣ", "ⓤ", "ⓥ", "ⓦ", "ⓧ", "ⓨ",
     "ⓩ", "Ⲁ", "ⲁ", "Ⲃ", "ⲃ", "Ⲅ", "ⲅ", "Ⲇ", "ⲇ", "Ⲉ", "ⲉ", "Ⲋ", "ⲋ", "Ⲍ",
     "ⲍ", "Ⲏ", "ⲏ", "Ⲑ", "ⲑ", "Ⲓ", "ⲓ", "Ⲕ", "ⲕ", "Ⲗ", "ⲗ", "Ⲙ", "ⲙ", "Ⲛ",
     "ⲛ", "Ⲝ", "ⲝ", "Ⲟ", "ⲟ", "Ⲡ", "ⲡ", "Ⲣ", "ⲣ", "Ⲥ", "ⲥ", "Ⲧ", "ⲧ", "Ⲩ",
     "ⲩ", "Ⲫ", "ⲫ", "Ⲭ", "ⲭ", "Ⲯ", "ⲯ", "Ⲱ", "ⲱ", "Ⲳ", "ⲳ", "Ⲵ", "ⲵ", "Ⲷ",
     "ⲷ", "Ⲹ", "ⲹ", "Ⲻ", "ⲻ", "Ⲽ", "ⲽ", "Ⲿ", "ⲿ", "Ⳁ", "ⳁ", "Ⳃ", "ⳃ", "Ⳅ",
     "ⳅ", "Ⳇ", "ⳇ", "Ⳉ", "ⳉ", "Ⳋ", "ⳋ", "Ⳍ", "ⳍ", "Ⳏ", "ⳏ", "Ⳑ", "ⳑ", "Ⳓ",
     "ⳓ", "Ⳕ", "ⳕ", "Ⳗ", "ⳗ", "Ⳙ", "ⳙ", "Ⳛ", "ⳛ", "Ⳝ", "ⳝ", "Ⳟ", "ⳟ", "Ⳡ",
     "ⳡ", "Ⳣ", "ⳣ", "ⳤ", "Ⳬ", "ⳬ", "Ⳮ", "ⳮ", "Ⳳ", "ⳳ", "Ꚁ", "ꚁ", "Ꚃ", "ꚃ",
     "Ꚅ", "ꚅ", "Ꚇ", "ꚇ", "Ꚉ", "ꚉ", "Ꚋ", "ꚋ", "Ꚍ", "ꚍ", "Ꚏ", "ꚏ", "Ꚑ", "ꚑ",
     "Ꚓ", "ꚓ", "Ꚕ", "ꚕ", "Ꚗ", "ꚗ", "Ꚙ", "ꚙ", "Ꚛ", "ꚛ", "Ꞁ", "ꞁ", "Ꞃ", "ꞃ",
     "Ꞅ", "ꞅ", "Ꞇ", "ꞇ", "Ꞌ", "ꞌ", "Ɥ", "ꞎ", "Ꞑ", "ꞑ", "Ꞓ", "ꞓ", "ꞔ", "ꞕ",
     "Ꞗ", "ꞗ", "Ꞙ", "ꞙ", "Ꞛ", "ꞛ", "Ꞝ", "ꞝ", "Ꞟ", "ꞟ", "Ꞡ", "ꞡ", "Ꞣ", "ꞣ",
     "Ꞥ", "ꞥ", "Ꞧ", "ꞧ", "Ꞩ", "ꞩ", "Ɦ", "Ɜ", "Ɡ", "Ɬ", "Ɪ", "ꞯ", "Ʞ", "Ʇ",
     "Ʝ", "Ꭓ", "Ꞵ", "ꞵ", "Ꞷ", "ꞷ", "Ꞹ", "ꞹ", "Ꞻ", "ꞻ", "Ꞽ", "ꞽ", "Ꞿ", "ꞿ",
     "Ꟁ", "ꟁ", "Ꟃ", "ꟃ", "Ꞔ", "Ʂ", "Ᶎ", "Ꟈ", "ꟈ", "Ꟊ", "ꟊ", "Ꟑ", "ꟑ", "ꟓ",
     "ꟕ", "Ꟗ", "ꟗ", "Ꟙ", "ꟙ", "Ꟶ", "ꟶ", "ꟺ", "ꮀ", "ꮁ", "ꮂ", "ꮃ", "ꮄ", "ꮅ",
     "ꮆ", "ꮇ", "ꮈ", "ꮉ", "ꮊ", "ꮋ", "ꮌ", "ꮍ", "ꮎ", "ꮏ", "ꮐ", "ꮑ", "ꮒ", "ꮓ",
     "ꮔ", "ꮕ", "ꮖ", "ꮗ", "ꮘ", "ꮙ", "ꮚ", "ꮛ", "ꮜ", "ꮝ", "ꮞ", "ꮟ", "ꮠ", "ꮡ",
     "ꮢ", "ꮣ", "ꮤ", "ꮥ", "ꮦ", "ꮧ", "ꮨ", "ꮩ", "ꮪ", "ꮫ", "ꮬ", "ꮭ", "ꮮ", "ꮯ",
     "ꮰ", "ꮱ", "ꮲ", "ꮳ", "ꮴ", "ꮵ", "ꮶ", "ꮷ", "ꮸ", "ꮹ", "ꮺ", "ꮻ", "ꮼ", "ꮽ",
     "ꮾ", "ꮿ", "U+0253", "U+0254", "U+0256", "U+0257", "U+0259", "U+025B",
     "U+025C", "U+0260", "U+0261", "U+0263", "U+0265", "U+0266", "U+0268",
     "U+0269", "U+026A", "U+026C", "U+026F", "U+0272", "U+0275", "U+037B",
     "U+037C", "U+037D", "U+1F70", "U+1F71", "U+1F72", "U+1F73", "U+1F74",
     "U+1F75", "U+1F76", "U+1F77", "U+1F78", "U+1F79", "U+1F7A", "U+1F7B",
     "U+1F7C", "U+1F7D", "U+2D00", "U+2D01", "U+2D02", "U+2D03", "U+2D04",
     "U+2D05", "U+2D06", "U+2D07", "U+2D08", "U+2D09", "U+2D0A", "U+2D0B",
     "U+2D0C", "U+2D0D", "U+2D0E", "U+2D0F", "U+2D10", "U+2D11", "U+2D12",
     "U+2D13", "U+2D14", "U+2D15", "U+2D16", "U+2D17", "U+2D18", "U+2D19",
     "U+2D1A", "U+2D1B", "U+2D1C", "U+2D1D", "U+2D1E", "U+2D1F", "U+2D20",
     "U+2D21", "U+2D22", "U+2D23", "U+2D24", "U+2D25", "U+2D27", "U+2D2D",
     "U+AB53", "U+AB70", "U+AB71", "U+AB72", "U+AB73", "U+AB74", "U+AB75",
     "U+AB76", "U+AB77", "U+AB78", "U+AB79", "U+AB7A", "U+AB7B", "U+AB7C",
     "U+AB7D", "U+AB7E", "U+AB7F"}

\* the case-ignorable characters
CaseIgnorable ==
    {"'", ".", ":", "^", "¨", "­", "¯", "´", "·", "¸", "ʰ", "ʱ", "ʲ", "ʳ",
     "ʴ", "ʵ", "ʶ", "ʷ", "ʸ", "ʹ", "ʺ", "ʻ", "ʼ", "ʽ", "ʾ", "ʿ", "ˀ", "ˁ",
     "˂", "˃", "˄", "˅", "ˆ", "ˇ", "ˈ", "ˉ", "ˊ", "ˋ", "ˌ", "ˍ", "ˎ", "ˏ",
     "ː", "ˑ", "˒", "˓", "˔", "˕", "˖", "˗", "˘", "˙", "˚", "˛", "˜", "˝",
     "˞", "˟", "ˠ", "ˡ", "ˢ", "ˣ", "ˤ", "˥", "˦", "˧", "˨", "˩", "˪", "˫",
     "ˬ", "˭", "ˮ", "˯", "˰", "˱", "˲", "˳", "˴", "˵", "˶", "˷", "˸", "˹",
     "˺", "˻", "˼", "˽", "˾", "˿", "΄", "΅", "·", "҃", "҄", "҅", "҆", "҇",
     "҈", "҉", "֑", "֒", "֓", "֔", "֕", "֖", "֗", "֘", "֙", "֚", "֛", "֜",
     "֝", "֞", "֟", "֠", "֡", "֢", "֣", "֤", "֥", "֦", "֧", "֨", "֩", "֪",
     "֫", "֬", "֭", "֮", "֯", "ְ", "ֱ", "ֲ", "ֳ", "ִ", "ֵ", "ֶ", "ַ", "ָ",
     "ֹ", "ֺ", "ֻ", "ּ", "ֽ", "ֿ", "ׁ", "ׂ", "ׄ", "ׅ", "ׇ", "״", "ۖ", "ۗ",
     "ۘ", "ۙ", "ۚ", "ۛ", "ۜ", "۝", "۟", "۠", "ۡ", "ۢ", "ۣ", "ۤ", "ۥ", "ۦ",
     "ۧ", "ۨ", "۪", "۫", "۬", "ۭ", "ަ", "ާ", "ި", "ީ", "ު", "ޫ", "ެ", "ޭ",
     "ޮ", "ޯ", "ް", "߫", "߬", "߭", "߮", "߯", "߰", "߱", "߲", "߳", "ߴ", "ߵ",
     "ߺ", "߽", "࢈", "࢐", "࢑", "࢘", "࢙", "࢚", "࢛", "࢜", "࢝", "࢞", "࢟", "ࣉ",
     "࣊", "࣋", "࣌", "࣍", "࣎", "࣏", "࣐", "࣑", "࣒", "࣓", "ࣔ", "ࣕ", "ࣖ", "ࣗ",
     "ࣘ", "ࣙ", "ࣚ", "ࣛ", "ࣜ", "ࣝ", "ࣞ", "ࣟ", "࣠", "࣡", "࣢", "ࣣ", "ࣤ", "ࣥ",
     "ࣦ", "ࣧ", "ࣨ", "ࣩ", "࣪", "࣫", "࣬", "࣭", "࣮", "࣯", "ࣰ", "ࣱ", "ࣲ", "ࣳ",
     "ࣴ", "ࣵ", "ࣶ", "ࣷ", "ࣸ", "ࣹ", "ࣺ", "ࣻ", "ࣼ", "ࣽ", "ࣾ", "ࣿ", "ঁ", "়",
     "ু", "ূ", "ৃ", "ৄ", "্", "ৢ", "ৣ", "৾", "ઁ", "ં", "઼", "ુ", "ૂ", "ૃ",
     "ૄ", "ૅ", "ે", "ૈ", "્", "ૢ", "ૣ", "ૺ", "ૻ", "ૼ", "૽", "૾", "૿", "ஂ",
     "ீ", "்", "ಁ", "಼", "ಿ", "ೆ", "ೌ", "್", "ೢ", "ೣ", "ඁ", "්", "ි", "ී",
     "ු", "ූ", "ັ", "ິ", "ີ", "ຶ", "ື", "ຸ", "ູ", "຺", "ົ", "ຼ", "ໆ", "່",
     "້", "໊", "໋", "໌", "ໍ", "ྀ", "ཱྀ", "ྂ", "ྃ", "྄", "྆", "྇", "ྍ", "ྎ",
     "ྏ", "ྐ", "ྑ", "ྒ", "ྒྷ", "ྔ", "ྕ", "ྖ", "ྗ", "ྙ", "ྚ", "ྛ", "ྜ", "ྜྷ",
     "ྞ", "ྟ", "ྠ", "ྡ", "ྡྷ", "ྣ", "ྤ", "ྥ", "ྦ", "ྦྷ", "ྨ", "ྩ", "ྪ", "ྫ",
     "ྫྷ", "ྭ", "ྮ", "ྯ", "ྰ", "ྱ", "ྲ", "ླ", "ྴ", "ྵ", "ྶ", "ྷ", "ྸ", "ྐྵ",
     "ྺ", "ྻ", "ྼ", "࿆", "ႂ", "ႅ", "ႆ", "ႍ", "ႝ", "ჼ", "឴", "឵", "ិ", "ី",
     "ឹ", "ឺ", "ុ", "ូ", "ួ", "ំ", "៉", "៊", "់", "៌", "៍", "៎", "៏", "័",
     "៑", "្", "៓", "ៗ", "៝", "ᢅ", "ᢆ", "ᢩ", "ᪧ", "᪰", "᪱", "᪲", "᪳", "᪴",
     "᪵", "᪶", "᪷", "᪸", "᪹", "᪺", "᪻", "᪼", "᪽", "᪾", "ᪿ", "ᫀ", "᫁", "᫂",
     "᫃", "᫄", "᫅", "᫆", "᫇", "᫈", "᫉", "᫊", "᫋", "ᫌ", "ᫍ", "ᫎ", "ᮀ", "ᮁ",
     "ᮢ", "ᮣ", "ᮤ", "ᮥ", "ᮨ", "ᮩ", "᮫", "ᮬ", "ᮭ", "᯦", "ᯨ", "ᯩ", "ᯭ", "ᯯ",
     "ᯰ", "ᯱ", "᳐", "᳑", "᳒", "᳔", "᳕", "᳖", "᳗", "᳘", "᳙", "᳚", "᳛", "᳜",
     "᳝", "᳞", "᳟", "᳠", "᳢", "᳣", "᳤", "᳥", "᳦", "᳧", "᳨", "᳭", "᳴", "᳸",
     "᳹", "ᶛ", "ᶜ", "ᶝ", "ᶞ", "ᶟ", "ᶠ", "ᶡ", "ᶢ", "ᶣ", "ᶤ", "ᶥ", "ᶦ", "ᶧ",
     "ᶨ", "ᶩ", "ᶪ", "ᶫ", "ᶬ", "ᶭ", "ᶮ", "ᶯ", "ᶰ", "ᶱ", "ᶲ", "ᶳ", "ᶴ", "ᶵ",
     "ᶶ", "ᶷ", "ᶸ", "ᶹ", "ᶺ", "ᶻ", "ᶼ", "ᶽ", "ᶾ", "ᶿ", "᷀", "᷁", "᷂", "᷃",
     "᷄", "᷅", "᷆", "᷇", "᷈", "᷉", "᷊", "᷋", "᷌", "᷍", "᷎", "᷏", "᷐", "᷑",
     "᷒", "ᷓ", "ᷔ", "ᷕ", "ᷖ", "ᷗ", "ᷘ", "ᷙ", "ᷚ", "ᷛ", "ᷜ", "ᷝ", "ᷞ", "ᷟ",
     "ᷠ", "ᷡ", "ᷢ", "ᷣ", "ᷤ", "ᷥ", "ᷦ", "ᷧ", "ᷨ", "ᷩ", "ᷪ", "ᷫ", "ᷬ", "ᷭ",
     "ᷮ", "ᷯ", "ᷰ", "ᷱ", "ᷲ", "ᷳ", "ᷴ", "᷵", "᷶", "᷷", "᷸", "᷹", "᷺", "᷻",
     "᷼", "᷽", "᷾", "᷿", "᾽", "᾿", "῀", "῁", "῍", "῎", "῏", "῝", "῞", "῟",
     "῭", "΅", "`", "´", "῾", "ₐ", "ₑ", "ₒ", "ₓ", "ₔ", "ₕ", "ₖ", "ₗ", "ₘ",
     "ₙ", "ₚ", "ₛ", "ₜ", "⃐", "⃑", "⃒", "⃓", "⃔", "⃕", "⃖", "⃗", "⃘", "⃙",
     "⃚", "⃛", "⃜", "⃝", "⃞", "⃟", "⃠", "⃡", "⃢", "⃣", "⃤", "⃥", "⃦", "⃧",
     "⃨", "⃩", "⃪", "⃫", "⃬", "⃭", "⃮", "⃯", "⃰", "⳯", "⳰", "⳱", "ⷠ", "ⷡ",
     "ⷢ", "ⷣ", "ⷤ", "ⷥ", "ⷦ", "ⷧ", "ⷨ", "ⷩ", "ⷪ", "ⷫ", "ⷬ", "ⷭ", "ⷮ", "ⷯ",
     "ⷰ", "ⷱ", "ⷲ", "ⷳ", "ⷴ", "ⷵ", "ⷶ", "ⷷ", "ⷸ", "ⷹ", "ⷺ", "ⷻ", "ⷼ", "ⷽ",
     "ⷾ", "ⷿ", "゙", "゚", "゛", "゜", "ゝ", "ゞ", "ー", "ヽ", "ヾ", "ꓸ", "ꓹ", "ꓺ",
     "ꓻ", "ꓼ", "ꓽ", "ꚜ", "ꚝ", "ꚞ", "ꚟ", "꛰", "꛱", "ꞈ", "꞉", "꞊", "ꟲ", "ꟳ",
     "ꟴ", "ꟸ", "ꟹ", "꣄", "ꣅ", "꣠", "꣡", "꣢", "꣣", "꣤", "꣥", "꣦", "꣧", "꣨",
     "꣩", "꣪", "꣫", "꣬", "꣭", "꣮", "꣯", "꣰", "꣱", "ꣿ", "ꦀ", "ꦁ", "ꦂ", "꦳",
     "ꦶ", "ꦷ", "ꦸ", "ꦹ", "ꦼ", "ꦽ", "ꧏ", "ꧥ", "ꧦ", "ꪰ", "ꪲ", "ꪳ", "ꪴ", "ꪷ",
     "ꪸ", "ꪾ", "꪿", "꫁", "ꫝ", "ꫬ", "ꫭ", "ꫳ", "ꫴ", "꫶", "ꯥ", "ꯨ", "꯭", "﮲",
     "﮳", "﮴", "﮵", "﮶", "﮷", "﮸", "﮹", "﮺", "﮻", "﮼", "﮽", "﮾", "﮿", "﯀",
     "﯁", "﯂", "﻿", "ﾞ", "ﾟ", "￣", "￹", "￺", "￻"}

\* a capital sigma ends a word: a cased character stands before it and none
\* after it, case-ignorable characters in between left aside
FinalSigma(s, i) ==
    /\ \E j \in 1..(i - 1) :
          /\ s[j] \in CasedChars
          /\ \A k \in (j + 1)..(i - 1) : s[k] \in CaseIgnorable
    /\ ~\E j \in (i + 1)..Len(s) :
          /\ s[j] \in CasedChars
          /\ \A k \in (i + 1)..(j - 1) : s[k] \in CaseIgnorable

\* str.lower()
lower(s) ==
    [i \in 1..Len(s) |->
        IF s[i] = "Σ" /\ FinalSigma(s, i) THEN "ς" ELSE LowerChar(s[i])]

\* s without the characters of ws at its two ends
strip_chars(s, ws) ==
    LET keep == {i \in 1..Len(s) : s[i] \notin ws} IN
    IF keep = {} THEN <<>>
    ELSE SubSeq(s, CHOOSE i \in keep : \A j \in keep : i <= j,
                   CHOOSE i \in keep : \A j \in keep : i >= j)

\* str.strip(): drop leading and trailing whitespace
strip(s) == strip_chars(s, Whitespace)

\* '$' of re.match also matches just before a final newline
DollarEnds(s) ==
    {s} \cup (IF Len(s) > 0 /\ s[Len(s)] = "\n"
              THEN {SubSeq(s, 1, Len(s) - 1)} ELSE {})

\* [^\s@]+@[^\s@]+\.[^\s@]+ over the whole of t
EmailShape(t) ==
    \E i \in 2..Len(t) : \E j \in (i + 2)..(Len(t) - 1) :
        /\ t[i] = "@"
        /\ t[j] = "."
        /\ \A k \in 1..Len(t) : k # i => t[k] \notin (Whitespace \cup {"@"})

\* re.match(r'^[^\s@]+@[^\s@]+\.[^\s@]+$', email)
EmailMatch(email) == \E t \in DollarEnds(email) : EmailShape(t)

\* \+[1-9]\d{1,14} over the whole of t
PhoneIntl(t) ==
    /\ Len(t) >= 1 + 1 + 1
    /\ Len(t) <= 1 + 1 + 14
    /\ t[1] = "+"
    /\ t[2] \in (Digits \ {"0"})
    /\ \A k \in 3..Len(t) : t[k] \in DecimalChars

\* \d{3}-\d{3}-\d{4} over the whole of t
PhoneDashed(t) ==
    /\ Len(t) = 3 + 1 + 3 + 1 + 4
    /\ \A k \in 1..Len(t) :
          IF k \in {4, 8} THEN t[k] = "-" ELSE t[k] \in DecimalChars

\* re.match(r'^(\+[1-9]\d{1,14}|\d{3}-\d{3}-\d{4})$', phone)
PhoneMatch(phone) ==
    \E t \in DollarEnds(phone) : PhoneIntl(t) \/ PhoneDashed(t)

----------------------------------------------------------------------------
(* Entity store: Customer *)

\* Customer.objects.filter(email=email).exists(): exact lookup
EmailExists(store, email) ==
    \E i \in 1..Len(store) : store[i].email = email

ErrName == "Name is required"
ErrEmailFormat == "Invalid email format"
ErrEmailExists == "Email already exists"
ErrPhone == "Invalid phone format. Use +1234567890 or 123-456-7890 format"
ErrDatabase == "Database error"

\* BaseCustomerMutation.validate_customer_data: the list of errors
validate_customer_data(store, name, email, phone) ==
    (IF strip(name) = <<>> THEN <<ErrName>> ELSE <<>>)
    \o (IF ~EmailMatch(email) THEN <<ErrEmailFormat>> ELSE <<>>)
    \o (IF EmailExists(store, email) THEN <<ErrEmailExists>> ELSE <<>>)
    \o (IF ~IsNone(phone) /\ Val(phone) # <<>> /\ ~PhoneMatch(Val(phone))
        THEN <<ErrPhone>> ELSE <<>>)

\* CustomerInsertRaises for an email column that is not unique
CustomerInsertNeverRaises(store, rec) == FALSE

\* the email column is unique: an insert of a stored email raises
CustomerInsertRaises(store, rec) == EmailExists(store, rec.email)

\* the row Customer.objects.create builds
NewCustomer(store, name, email, phone) ==
    [id |-> Len(store) + 1,
     name |-> strip(name),
     email |-> strip(lower(email)),
     phone |-> phone]

\* BaseCustomerMutation.create_customer_safe: (customer, errors) and the
\* store it leaves; insert_failed tells that Customer.objects.create raised,
\* which inside an atomic block marks the transaction for rollback
create_customer_safe(store, name, email, phone) ==
    LET errors == validate_customer_data(store, name, email, phone)
        rec == NewCustomer(store, name, email, phone)
    IN  IF errors # <<>>
        THEN [customer |-> None, errors |-> errors, store |-> store,
              insert_failed |-> FALSE]
        ELSE IF CustomerInsertRaises(store, rec)
        THEN [customer |-> None, errors |-> <<ErrDatabase>>, store |-> store,
              insert_failed |-> TRUE]
        ELSE [customer |-> Some(rec), errors |-> <<>>,
              store |-> Append(store, rec), insert_failed |-> FALSE]

----------------------------------------------------------------------------
(* Inputs *)

S_n == <<"n">>
S_n_padded == <<" ", "n", " ">>
S_blank == <<" ">>
E_a == <<"a", "@", "b", ".", "c">>
E_A == <<"A", "@", "b", ".", "c">>
E_a_nl == <<"a", "@", "b", ".", "c", "\n">>
E_x == <<"x", "@", "y", ".", "z">>
E_bad == <<"a", "b", ".", "c">>
P_intl == <<"+", "1", "2">>
P_bad == <<"1", "2">>

\* the items of the lists handed to BulkCreateCustomers
BulkInputs ==
    { [name |-> S_n,        email |-> E_a, phone |-> None],
      [name |-> S_n_padded, email |-> E_A, phone |-> None],
      [name |-> S_n,        email |-> E_x, phone |-> Some(P_intl)] }

\* the arguments handed to CreateCustomer
CustomerInputs ==
    BulkInputs \cup
    { [name |-> S_n,     email |-> E_a_nl, phone |-> None],
      [name |-> S_blank, email |-> E_bad,  phone |-> Some(P_bad)],
      [name |-> S_blank, email |-> E_A,    phone |-> Some(P_bad)],
      [name |-> S_n,     email |-> E_x,    phone |-> Some(P_bad)] }

RECURSIVE SeqsUpTo(_, _)
SeqsUpTo(S, n) ==
    IF n = 0 THEN {<<>>}
    ELSE LET shorter == SeqsUpTo(S, n - 1) IN
         shorter \cup {Append(q, x) : q \in shorter, x \in S}

----------------------------------------------------------------------------
(* State *)

Store == [customers |-> customers, products |-> products, orders |-> orders]

Init ==
    /\ customers = <<>>
    /\ products = <<>>
    /\ orders = <<>>
    /\ last = [op |-> "none"]
    /\ calls = <<>>

\* CreateCustomer.mutate
CreateCustomer(name, email, phone) ==
    LET r == create_customer_safe(customers, name, email, phone) IN
    /\ customers' = r.store
    /\ last' = [op |-> "CreateCustomer",
                name |-> name, email |-> email, phone |-> phone,
                raised |-> r.errors # <<>>,
                errors |-> r.errors,
                customer |-> r.customer,
                before |-> Store]
    /\ UNCHANGED <<products, orders, calls>>

----------------------------------------------------------------------------
(* BulkCreateCustomers *)

\* pre-validation of fail-fast mode: "Customer i: error" for every error of
\* every item, each item validated against the store as it is before the call
RECURSIVE PreValidate(_, _, _)
PreValidate(store, items, i) ==
    IF i > Len(items) THEN <<>>
    ELSE LET errors == validate_customer_data(store, items[i].name,
                                              items[i].email, items[i].phone)
         IN  [k \in 1..Len(errors) |-> [item |-> i, error |-> errors[k]]]
             \o PreValidate(store, items, i + 1)

\* "Failed to create customer i: ..." of the loop's own raise
ErrFailed == "Failed to create customer"
\* TransactionManagementError: a query in a transaction marked for rollback
ErrTransaction == "An error occurred in the current transaction"

\* transaction.savepoint_rollback(sid): back to the store of the savepoint
savepoint_rollback(sid, store) == sid

\* AtomicExit with no enclosing transaction: the writes stay
AtomicExitKeepsWrites(before, store, raised) == store

\* leaving "with transaction.atomic()": an exception undoes the block
AtomicExit(before, store, raised) == IF raised THEN before ELSE store

\* the loop over the items, from item i on.  An item that fails validation
\* is undone to its savepoint.  An item whose insert raised has left the
\* transaction marked for rollback: savepoint_rollback(sid) of the else branch
\* raises TransactionManagementError, the except clause catches it and its
\* own savepoint_rollback(sid) raises it again, out of the atomic block, in
\* either mode
RECURSIVE BulkLoop(_, _, _, _, _, _)
BulkLoop(store, items, i, results, successful, fail_on_error) ==
    IF i > Len(items)
    THEN [store |-> store, results |-> results, successful |-> successful,
          raised |-> FALSE, failed_item |-> 0, errors |-> <<>>,
          message |-> ""]
    ELSE
    LET input_data == [name |-> items[i].name, email |-> items[i].email,
                       phone |-> items[i].phone]
        sid == store
        r == create_customer_safe(store, items[i].name, items[i].email,
                                  items[i].phone)
        failure == [customer |-> None, success |-> FALSE,
                    error |-> r.errors, input_data |-> input_data]
    IN  IF ~IsNone(r.customer)
        THEN BulkLoop(r.store, items, i + 1,
                      Append(results, [customer |-> r.customer,
                                       success |-> TRUE, error |-> <<>>,
                                       input_data |-> input_data]),
                      Append(successful, Val(r.customer)), fail_on_error)
        ELSE IF r.insert_failed
        THEN [store |-> r.store,
              results |-> Append(results, failure),
              successful |-> successful,
              raised |-> TRUE, failed_item |-> i,
              errors |-> <<ErrTransaction>>, message |-> ErrTransaction]
        ELSE IF fail_on_error
        THEN \* raised inside the try, caught by its own except, raised again
             [store |-> savepoint_rollback(sid, savepoint_rollback(sid, r.store)),
              results |-> Append(Append(results, failure), failure),
              successful |-> successful,
              raised |-> TRUE, failed_item |-> i, errors |-> r.errors,
              message |-> ErrFailed]
        ELSE BulkLoop(savepoint_rollback(sid, r.store), items, i + 1,
                      Append(results, failure), successful, fail_on_error)

\* BulkResult calling the call a success when anything was created
BulkResultAnySuccess(items, results, successful) ==
    [results |-> results,
     total_count |-> Len(items),
     success_count |-> Len(successful),
     error_count |-> Len(items) - Len(successful),
     success |-> (Len(successful) > 0)]

\* the counts and the flag of the returned BulkCreateCustomers object
BulkResult(items, results, successful) ==
    LET success_count == Len(successful)
        error_count == Len(items) - success_count
    IN  [results |-> results,
         total_count |-> Len(items),
         success_count |-> success_count,
         error_count |-> error_count,
         success |-> (error_count = 0)]

\* BulkCreateCustomers.mutate
BulkOutcome(store, st, items, fail_on_error) ==
    LET call == [op |-> "BulkCreateCustomers", customers |-> items,
                 fail_on_error |-> fail_on_error, before |-> st]
    IN
    IF items = <<>>
    THEN [store |-> store, 
          last |-> call @@ [raised |-> TRUE,
                                message |-> "No customers provided",
                                validation_errors |-> <<>>]]
    ELSE LET validation_errors ==
            IF fail_on_error THEN PreValidate(store, items, 1) ELSE <<>>
    IN IF validation_errors # <<>>
       THEN [store |-> store, 
            last |-> call @@ [raised |-> TRUE,
                                message |-> "Validation failed",
                                validation_errors |-> validation_errors]]
       ELSE LET run == BulkLoop(store, items, 1, <<>>, <<>>, fail_on_error) IN
            [store |-> AtomicExit(store, run.store, run.raised),
             last |-> IF run.raised
                       THEN call @@ [raised |-> TRUE,
                                     message |-> run.message,
                                     failed_item |-> run.failed_item,
                                     errors |-> run.errors,
                                     validation_errors |-> <<>>]
                       ELSE call @@ [raised |-> FALSE]
                                 @@ BulkResult(items, run.results,
                                               run.successful)]

BulkCreateCustomers(items, fail_on_error) ==
    /\ UNCHANGED <<products, orders, calls>>
    /\ \E out \in {BulkOutcome(customers, Store, items, fail_on_error)} :
         /\ customers' = out.store
         /\ last' = out.last

Batches == SeqsUpTo(BulkInputs, MaxBatch)

----------------------------------------------------------------------------
(* CreateProduct *)

ErrPrice == "Price must be greater than 0"
ErrStock == "Stock must be non-negative"

\* validate_product letting a price of 0 through
validate_product_allows_zero(price, stock) ==
    (IF price < 0 THEN <<ErrPrice>> ELSE <<>>)
    \o (IF ~IsNone(stock) /\ Val(stock) < 0 THEN <<ErrStock>> ELSE <<>>)

\* the errors CreateProduct.mutate collects; stock is None or Some(v)
validate_product(price, stock) ==
    (IF price <= 0 THEN <<ErrPrice>> ELSE <<>>)
    \o (IF ~IsNone(stock) /\ Val(stock) < 0 THEN <<ErrStock>> ELSE <<>>)

\* "if stock is None: stock = 0"
StockOrZero(stock) == IF IsNone(stock) THEN 0 ELSE Val(stock)

\* the row Product.objects.create builds
NewProduct(store, name, price, stock) ==
    [id |-> Len(store) + 1, name |-> name, price |-> price, stock |-> stock]

\* CreateProduct.mutate(name, price, stock=0); fault is the statement the
\* store fails, "create" for Product.objects.create raising
ProductOutcome(store, st, name, price, stockArg, fault) ==
    LET stock == ArgOr(stockArg, Some(0))
        errors == validate_product(price, stock)
        rec == NewProduct(store, name, price, StockOrZero(stock))
        call == [op |-> "CreateProduct", name |-> name, price |-> price,
                 stock |-> stockArg, fault |-> fault, before |-> st]
    IN  IF errors # <<>>
        THEN [store |-> store,
              last |-> call @@ [raised |-> TRUE, errors |-> errors,
                                product |-> None]]
        ELSE IF fault = "create"
        THEN [store |-> store,
              last |-> call @@ [raised |-> TRUE, errors |-> <<ErrDatabase>>,
                                product |-> None]]
        ELSE [store |-> Append(store, rec),
              last |-> call @@ [raised |-> FALSE, errors |-> <<>>,
                                product |-> Some(rec)]]

CreateProduct(name, price, stockArg, fault) ==
    /\ Len(products) < MaxProducts
    /\ UNCHANGED <<customers, orders, calls>>
    /\ \E out \in {ProductOutcome(products, Store, name, price, stockArg,
                                  fault)} :
          /\ products' = out.store
          /\ last' = out.last

\* whether the store fails the write of a CreateProduct call
ProductFaults == {"none", "create"}

\* a product is low on stock below this: queryset.filter(stock__lt=10)
LowStockThreshold == 10

\* the stock the low-stock update adds to a product: one amount that may
\* leave the product low on stock and one that does not
RestockAmounts == {5, 10}

\* the products with the stock of those low on stock raised by amount
Restocked(store, amount) ==
    [k \in 1..Len(store) |->
        IF store[k].stock < LowStockThreshold
        THEN [store[k] EXCEPT !.stock = store[k].stock + amount]
        ELSE store[k]]

\* UpdateLowStockProducts.mutate: raises the stock of the products low on
\* stock and reports those it updated
UpdateLowStockProducts(amount) ==
    /\ products' = Restocked(products, amount)
    /\ last' = [op |-> "UpdateLowStockProducts", amount |-> amount,
                before |-> Store,
                updated_products |->
                    {Restocked(products, amount)[k] :
                        k \in {j \in 1..Len(products) :
                                  products[j].stock < LowStockThreshold}}]
    /\ UNCHANGED <<customers, orders, calls>>

ProductName == <<"p">>

ProductInputs ==
    [name : {ProductName},
     price : {-1, 0, 1, 10, 25},
     stock : {Omitted, Passed(None), Passed(Some(-1)), Passed(Some(0)),
              Passed(Some(5))}]

NextProduct ==
    \/ \E p \in ProductInputs : \E f \in ProductFaults :
          CreateProduct(p.name, p.price, p.stock, f)
    \/ \E n \in RestockAmounts : UpdateLowStockProducts(n)

SpecProduct == Init /\ [][NextProduct]_vars

----------------------------------------------------------------------------
(* CreateOrder *)

DigitChars == <<"0", "1", "2", "3", "4", "5", "6", "7", "8", "9">>

\* the value of a decimal digit
DigitVal(c) == (CHOOSE v \in 1..10 : c \in DecimalDigits[v]) - 1

\* the whitespace int drops around a number: that of str.strip but for the
\* separators U+001C to U+001F
IntWhitespace == Whitespace \ {"", "", "", ""}

\* the text of a number without its sign
Unsigned(t) == IF t # <<>> /\ t[1] \in {"+", "-"} THEN Tail(t) ELSE t

\* whether the store can turn the ID string into a key, int(id): whitespace
\* around it is dropped, then come an optional sign and decimal digits,
\* with single underscores allowed between digits
IsNumeric(id) ==
    LET d == Unsigned(strip_chars(id, IntWhitespace)) IN
    /\ d # <<>>
    /\ \A k \in 1..Len(d) : d[k] \in DecimalChars \cup {"_"}
    /\ d[1] # "_"
    /\ d[Len(d)] # "_"
    /\ \A k \in 1..(Len(d) - 1) : ~(d[k] = "_" /\ d[k + 1] = "_")

RECURSIVE DigitsToInt(_)
DigitsToInt(t) ==
    IF t = <<>> THEN 0
    ELSE IF t[Len(t)] = "_" THEN DigitsToInt(SubSeq(t, 1, Len(t) - 1))
    ELSE 10 * DigitsToInt(SubSeq(t, 1, Len(t) - 1)) + DigitVal(t[Len(t)])

\* int(id) of the key lookup
ToInt(id) ==
    LET t == strip_chars(id, IntWhitespace) IN
    IF t # <<>> /\ t[1] = "-" THEN 0 - DigitsToInt(Unsigned(t))
    ELSE DigitsToInt(Unsigned(t))

\* str(n) of a key
RECURSIVE ToStr(_)
ToStr(n) ==
    IF n < 10 THEN <<DigitChars[n + 1]>>
    ELSE Append(ToStr(n \div 10), DigitChars[(n % 10) + 1])

\* Customer.objects.get(id=customer_id) finds a row
CustomerFound(custs, customer_id) ==
    \E i \in 1..Len(custs) : custs[i].id = ToInt(customer_id)

\* Product.objects.filter(id__in=product_ids): the rows found
ProductsIn(prods, product_ids) ==
    {prods[i] : i \in {k \in 1..Len(prods) :
        \E j \in 1..Len(product_ids) : prods[k].id = ToInt(product_ids[j])}}

\* provided_product_ids - existing_product_ids, both sets of strings
missing_ids(prods, product_ids) ==
    {product_ids[j] : j \in 1..Len(product_ids)}
        \ {ToStr(r.id) : r \in ProductsIn(prods, product_ids)}

ErrNoCustomer == "Customer does not exist"
ErrNoProducts == "At least one product ID is required"
ErrInvalidProducts == "Invalid product IDs"

\* the error of the customer lookup
customer_errors(custs, customer_id) ==
    IF CustomerFound(custs, customer_id) THEN <<>>
    ELSE <<[msg |-> ErrNoCustomer, ids |-> {customer_id}]>>

\* the error of the product lookup
product_errors(prods, product_ids) ==
    IF product_ids = <<>>
    THEN <<[msg |-> ErrNoProducts, ids |-> {}]>>
    ELSE IF missing_ids(prods, product_ids) # {}
    THEN <<[msg |-> ErrInvalidProducts,
            ids |-> missing_ids(prods, product_ids)]>>
    ELSE <<>>

\* sum(product.price for product in products)
RECURSIVE SumPrices(_)
SumPrices(rows) ==
    IF rows = {} THEN 0
    ELSE LET r == CHOOSE x \in rows : TRUE IN
         r.price + SumPrices(rows \ {r})

\* the total summed over the list of ids, a repeated id counted again
RECURSIVE TotalPerListedId(_, _)
TotalPerListedId(rows, product_ids) ==
    IF product_ids = <<>> THEN 0
    ELSE SumPrices({r \in rows : r.id = ToInt(product_ids[1])})
         + TotalPerListedId(rows, SubSeq(product_ids, 2, Len(product_ids)))

\* total_amount = sum(product.price for product in products), products
\* being the rows the queryset has read for product_ids
OrderTotal(rows, product_ids) == SumPrices(rows)

\* Order.objects.create(customer, total_amount, order_date): the row, with
\* no product associated yet
NewOrder(ords, customer_id, total_amount, order_date) ==
    [id |-> Len(ords) + 1, customer |-> ToInt(customer_id),
     products |-> {}, total_amount |-> total_amount,
     order_date |-> order_date]

\* order.products.set(products) on the last row of ords
SetProducts(ords, rows) ==
    [ords EXCEPT ![Len(ords)].products = {r.id : r \in rows}]

\* the body of "with transaction.atomic()" of CreateOrder.mutate: the store
\* it leaves and whether it raised; fault is the statement that fails
OrderWrite(ords, customer_id, rows, total_amount, order_date, fault) ==
    LET created == Append(ords, NewOrder(ords, customer_id, total_amount,
                                         order_date))
    IN  IF fault = "create" THEN [store |-> ords, raised |-> TRUE]
        ELSE IF fault = "set" THEN [store |-> created, raised |-> TRUE]
        ELSE [store |-> SetProducts(created, rows), raised |-> FALSE]

\* CreateOrder.mutate(customer_id, product_ids, order_date=None) sends its
\* queries to the store one after the other, each on its own until the
\* atomic block, so that other calls may commit between them.  The calls in
\* flight are a bag of records: a call has come to "products" (the customer
\* looked up) or to "write" (the products read, the atomic block ahead).
\* the call as the record of the last call shows it
OrderCall(customer_id, product_ids, order_date_arg) ==
    [op |-> "CreateOrder", customer_id |-> customer_id,
     product_ids |-> product_ids, order_date |-> order_date_arg,
     before |-> Store]

\* the call raises before its atomic block
OrderRaises(message, errors) ==
    [raised |-> TRUE, message |-> message, errors |-> errors,
     order |-> None, now |-> None, fault |-> "none", rows |-> {}]

\* the call starts, if fewer than n calls are in flight, and looks its
\* customer up; a customer_id that is no number makes the lookup raise
\* ValueError
CreateOrderCustomer(n, customer_id, product_ids, order_date_arg) ==
    /\ BagCardinality(calls) < n
    /\ Len(orders) + BagCardinality(calls) < MaxOrders
    /\ IF ~IsNumeric(customer_id)
       THEN /\ last' = OrderCall(customer_id, product_ids, order_date_arg)
                          @@ OrderRaises("ValueError", <<>>)
            /\ calls' = calls
       ELSE /\ calls' = calls (+) SetToBag({
                  [pc |-> "products", customer_id |-> customer_id,
                   product_ids |-> product_ids,
                   order_date |-> order_date_arg,
                   errors |-> customer_errors(customers, customer_id),
                   rows |-> {}, now |-> None]})
            /\ last' = last
    /\ UNCHANGED <<customers, products, orders>>

\* the call c reads its products, raises with the errors it has found or
\* goes on to the atomic block, the order_date set; a product id that is
\* no number makes the query raise ValueError
CreateOrderProducts(c, now) ==
    LET call == OrderCall(c.customer_id, c.product_ids, c.order_date)
        errors == c.errors \o product_errors(products, c.product_ids)
    IN
    /\ c.pc = "products"
    /\ IF \E j \in 1..Len(c.product_ids) : ~IsNumeric(c.product_ids[j])
       THEN /\ last' = call @@ OrderRaises("ValueError", <<>>)
            /\ calls' = calls (-) SetToBag({c})
       ELSE IF errors # <<>>
       THEN /\ last' = call @@ OrderRaises("validation", errors)
            /\ calls' = calls (-) SetToBag({c})
       ELSE /\ calls' = (calls (-) SetToBag({c})) (+) SetToBag({
                  [c EXCEPT !.pc = "write",
                            !.rows = ProductsIn(products, c.product_ids),
                            !.now = Some(now)]})
            /\ last' = last
    /\ UNCHANGED <<customers, products, orders>>

\* the atomic block of the call c, with the rows and the order_date it holds
CreateOrderWrite(c, fault) ==
    LET call == OrderCall(c.customer_id, c.product_ids, c.order_date)
        order_date == IF IsNone(c.order_date) THEN Val(c.now)
                      ELSE Val(c.order_date)
        w == OrderWrite(orders, c.customer_id, c.rows,
                        OrderTotal(c.rows, c.product_ids), order_date, fault)
        after == AtomicExit(orders, w.store, w.raised)
    IN
    /\ c.pc = "write"
    /\ orders' = after
    /\ calls' = calls (-) SetToBag({c})
    /\ last' = call @@
          [raised |-> w.raised,
           message |-> IF w.raised THEN "Failed to create order" ELSE "",
           errors |-> <<>>,
           order |-> IF w.raised THEN None ELSE Some(after[Len(after)]),
           now |-> c.now, fault |-> fault, rows |-> c.rows]
    /\ UNCHANGED <<customers, products>>

\* inputs of the order specification
OrderCustomerInputs == {[name |-> S_n, email |-> E_a, phone |-> None]}

OrderProductInputs ==
    [name : {ProductName}, price : {10, 25}, stock : {Omitted}]

\* the requests handed to CreateOrder: customer 1 is created by the
\* specification and customer 2 never is; the product ids are those of
\* products that may exist ("1", "2"), of none ("8", "9"), an id written
\* with a leading zero and one that is no number
OrderRequest(customer_id, product_ids, order_date) ==
    [customer_id |-> customer_id, product_ids |-> product_ids,
     order_date |-> order_date]

OrderRequests ==
    { OrderRequest(<<"1">>, <<<<"1">>>>, None),
      OrderRequest(<<"1">>, <<<<"2">>, <<"1">>>>, None),
      OrderRequest(<<"1">>, <<<<"1">>, <<"1">>>>, Some(5)),
      OrderRequest(<<"1">>, <<>>, None),
      OrderRequest(<<"2">>, <<<<"1">>>>, Some(5)),
      OrderRequest(<<"2">>, <<<<"9">>, <<"1">>, <<"8">>>>, None),
      OrderRequest(<<"1">>, <<<<"0", "1">>, <<"9">>>>, None),
      OrderRequest(<<"1">>, <<<<"1">>, <<"x">>>>, None) }

\* the reading of timezone.now() during the call
Now == {7}

Faults == {"none", "create", "set"}

\* the stock the low-stock update adds between the calls of CreateOrder
OrderRestockAmounts == {10}

\* the steps of the CreateOrder calls, at most n of them in flight
CreateOrder(n) ==
    \/ \E r \in OrderRequests :
          CreateOrderCustomer(n, r.customer_id, r.product_ids, r.order_date)
    \/ \E c \in BagToSet(calls) :
          \/ \E now \in Now : CreateOrderProducts(c, now)
          \/ \E f \in Faults : CreateOrderWrite(c, f)

\* one CreateOrder call in flight among the calls that change customers
\* and products
NextOrder ==
    \/ \E c \in OrderCustomerInputs : CreateCustomer(c.name, c.email, c.phone)
    \/ \E p \in OrderProductInputs :
          CreateProduct(p.name, p.price, p.stock, "none")
    \/ \E n \in OrderRestockAmounts : UpdateLowStockProducts(n)
    \/ CreateOrder(1)

SpecOrder == Init /\ [][NextOrder]_vars

\* two CreateOrder calls in flight among the calls that create customers
\* and products
NextOrderPair ==
    \/ \E c \in OrderCustomerInputs : CreateCustomer(c.name, c.email, c.phone)
    \/ \E p \in OrderProductInputs :
          CreateProduct(p.name, p.price, p.stock, "none")
    \/ CreateOrder(2)

SpecOrderPair == Init /\ [][NextOrderPair]_vars

Next ==
    \/ \E c \in CustomerInputs : CreateCustomer(c.name, c.email, c.phone)
    \/ \E items \in Batches :
          \E fail_on_error \in BOOLEAN :
             BulkCreateCustomers(items, fail_on_error)

Spec == Init /\ [][Next]_vars

----------------------------------------------------------------------------
(* Phone numbers handed to CreateCustomer and BulkCreateCustomers *)

\* '+' followed by n digits, the first of them not zero
PlusDigits(n) == <<"+">> \o [i \in 1..n |-> "1"]

P_empty == <<>>
P_dashed == <<"1","2","3","-","4","5","6","-","7","8","9","0">>
P_undashed == <<"1","2","3","4","5","6","7","8","9","0">>
P_zero == <<"+", "0", "2">>

PhoneInputs ==
    { None, Some(P_empty), Some(PlusDigits(1)), Some(PlusDigits(2)),
      Some(P_zero), Some(PlusDigits(14)), Some(PlusDigits(15)),
      Some(PlusDigits(16)), Some(P_dashed), Some(P_undashed) }

PhoneItems == [name : {S_n}, email : {E_a, E_x}, phone : PhoneInputs]

NextPhone ==
    \/ \E c \in PhoneItems : CreateCustomer(c.name, c.email, c.phone)
    \/ \E c \in PhoneItems : \E fail_on_error \in BOOLEAN :
          BulkCreateCustomers(<<c>>, fail_on_error)

SpecPhone == Init /\ [][NextPhone]_vars


----------------------------------------------------------------------------
(* Two concurrent customer mutations.  Each call runs the statements of    *)
(* its mutate in order; the steps of the two calls interleave at the       *)
(* queries and inserts they send to the store.                             *)

I_a == [name |-> S_n,        email |-> E_a, phone |-> None]
I_A == [name |-> S_n_padded, email |-> E_A, phone |-> None]
I_x == [name |-> S_n,        email |-> E_x, phone |-> Some(P_intl)]

SingleCall(c) == [kind |-> "CreateCustomer", items |-> <<c>>,
                  fail_on_error |-> FALSE]
BulkCall(items, fail_on_error) ==
    [kind |-> "BulkCreateCustomers", items |-> items,
     fail_on_error |-> fail_on_error]

ConcBatches == {<<I_a, I_x>>, <<I_x, I_A>>}

ConcCalls ==
    {SingleCall(c) : c \in {I_a, I_A, I_x}}
    \cup {BulkCall(l, m) : l \in ConcBatches, m \in BOOLEAN}

\* a call about to run its first statement
StartOf(c) ==
    [call |-> c,
     pc |-> IF c.fail_on_error THEN "prevalidate" ELSE "validate",
     i |-> 1, invalid |-> FALSE, pending |-> <<>>, results |-> <<>>,
     raised |-> FALSE]

InitConc ==
    /\ customers = <<>>
    /\ products = <<>>
    /\ orders = <<>>
    /\ last = [op |-> "none"]
    /\ calls \in {<<StartOf(c1), StartOf(c2)>> : c1 \in ConcCalls,
                                                  c2 \in ConcCalls}

Other(p) == 3 - p

InTransaction(proc) == proc.call.kind = "BulkCreateCustomers"

\* the rows a call's queries see: the committed rows and, inside its
\* transaction, the rows it has written itself
Visible(p) == customers \o calls[p].pending

Item(p) == calls[p].call.items[calls[p].i]

\* on to the next item, or to the end of the loop
Advance(proc) ==
    IF proc.i < Len(proc.call.items)
    THEN [proc EXCEPT !.i = proc.i + 1, !.pc = "validate"]
    ELSE [proc EXCEPT !.pc = IF InTransaction(proc) THEN "commit" ELSE "done"]

\* the item failed, with the errors of the validation ("invalid") or the
\* exception of the insert (the unique email: "database", a mutual wait
\* broken by the store: "deadlock").  CreateCustomer raises.  Inside the
\* atomic block a failed insert leaves the transaction marked for rollback,
\* so the savepoint_rollback that follows raises out of the block in either
\* mode and the block undoes its writes; an invalid item raises out of the
\* block in fail-fast mode, and is recorded in best-effort mode, which goes
\* on
ItemFails(proc, why) ==
    LET rec == [proc EXCEPT !.results = Append(proc.results, why)] IN
    IF ~InTransaction(proc)
    THEN [rec EXCEPT !.pc = "done", !.raised = TRUE]
    ELSE IF why \in {"database", "deadlock"} \/ proc.call.fail_on_error
    THEN [rec EXCEPT !.pc = "done", !.raised = TRUE,
                     !.pending = AtomicExit(<<>>, proc.pending, TRUE)]
    ELSE Advance(rec)

\* fail-fast pre-validation of item i, outside the transaction
ConcPreValidate(p) ==
    LET proc == calls[p]
        errors == validate_customer_data(customers, Item(p).name,
                                         Item(p).email, Item(p).phone)
        invalid == proc.invalid \/ errors # <<>>
    IN
    /\ proc.pc = "prevalidate"
    /\ calls' = [calls EXCEPT ![p] =
          IF proc.i < Len(proc.call.items)
          THEN [proc EXCEPT !.i = proc.i + 1, !.invalid = invalid]
          ELSE IF invalid
          THEN [proc EXCEPT !.pc = "done", !.raised = TRUE,
                            !.invalid = invalid]
          ELSE [proc EXCEPT !.pc = "validate", !.i = 1]]
    /\ UNCHANGED <<customers, products, orders, last>>

\* validate_customer_data of create_customer_safe for item i
ConcValidate(p) ==
    LET proc == calls[p]
        errors == validate_customer_data(Visible(p), Item(p).name,
                                         Item(p).email, Item(p).phone)
    IN
    /\ proc.pc = "validate"
    /\ calls' = [calls EXCEPT ![p] =
          IF errors = <<>> THEN [proc EXCEPT !.pc = "insert"]
          ELSE ItemFails(proc, "invalid")]
    /\ UNCHANGED <<customers, products, orders, last>>

\* the insert of item i has to wait: its email is that of a row another
\* call has written and not yet committed
Blocked(p) ==
    LET rec == NewCustomer(Visible(p), Item(p).name, Item(p).email,
                           Item(p).phone)
    IN  /\ calls[p].pc = "insert"
        /\ ~CustomerInsertRaises(Visible(p), rec)
        /\ CustomerInsertRaises(calls[Other(p)].pending, rec)

\* Customer.objects.create of create_customer_safe for item i
ConcInsert(p) ==
    LET proc == calls[p]
        rec == NewCustomer(Visible(p), Item(p).name, Item(p).email,
                           Item(p).phone)
    IN
    /\ proc.pc = "insert"
    /\ ~Blocked(p)
    /\ IF CustomerInsertRaises(Visible(p), rec)
       THEN /\ calls' = [calls EXCEPT ![p] = ItemFails(proc, "database")]
            /\ customers' = customers
       ELSE IF InTransaction(proc)
       THEN /\ calls' = [calls EXCEPT ![p] =
                  Advance([proc EXCEPT !.pending = Append(proc.pending, rec),
                                       !.results = Append(proc.results, "ok")])]
            /\ customers' = customers
       ELSE /\ calls' = [calls EXCEPT ![p] =
                  Advance([proc EXCEPT !.results = Append(proc.results, "ok")])]
            /\ customers' = Append(customers, rec)
    /\ UNCHANGED <<products, orders, last>>

\* both calls wait for each other: the store makes the insert of one fail
ConcDeadlock(p) ==
    /\ Blocked(p)
    /\ Blocked(Other(p))
    /\ calls' = [calls EXCEPT ![p] = ItemFails(calls[p], "deadlock")]
    /\ UNCHANGED <<customers, products, orders, last>>

\* the rows of a transaction as they are committed after the rows there are
Renumbered(store, rows) ==
    [k \in 1..Len(rows) |-> [rows[k] EXCEPT !.id = Len(store) + k]]

\* leaving "with transaction.atomic()" without an exception: commit
ConcCommit(p) ==
    /\ calls[p].pc = "commit"
    /\ customers' = AtomicExit(customers,
                       customers \o Renumbered(customers, calls[p].pending),
                       FALSE)
    /\ calls' = [calls EXCEPT ![p] = [calls[p] EXCEPT !.pc = "done",
                                                       !.pending = <<>>]]
    /\ UNCHANGED <<products, orders, last>>

NextConc ==
    \E p \in {1, 2} :
        \/ ConcPreValidate(p)
        \/ ConcValidate(p)
        \/ ConcInsert(p)
        \/ ConcDeadlock(p)
        \/ ConcCommit(p)

SpecConc == InitConc /\ [][NextConc]_vars


----------------------------------------------------------------------------
(* products_filtered *)

\* "if value:" on an optional number, boolean or string
TruthyNumber(o) == ~IsNone(o) /\ Val(o) # 0
TruthyBool(o) == ~IsNone(o) /\ Val(o)
TruthyString(o) == ~IsNone(o) /\ Val(o) # <<>>

\* the letters A to Z and a to z
AsciiUpper == SubSeq(UpperChars, 1, 26)
AsciiLower == SubSeq(LowerChars, 1, 26)

\* the case folding of LIKE in the store: the letters of ASCII only
LikeFold(s) ==
    [i \in 1..Len(s) |->
        IF \E k \in 1..26 : AsciiUpper[k] = s[i]
        THEN AsciiLower[CHOOSE k \in 1..26 : AsciiUpper[k] = s[i]]
        ELSE s[i]]

\* name__icontains, a LIKE '%text%' of the store: the text occurs in the
\* name, the case of the letters of ASCII set aside
icontains(s, t) ==
    \E k \in 0..(Len(s) - Len(t)) :
        LikeFold(SubSeq(s, k + 1, k + Len(t))) = LikeFold(t)

\* "if filter:" on the input object: it holds a value
TruthyFilter(f) ==
    /\ ~IsNone(f)
    /\ \/ ~IsNone(Val(f).name_icontains)
       \/ ~IsNone(Val(f).price_gte)
       \/ ~IsNone(Val(f).price_lte)
       \/ ~IsNone(Val(f).stock_gte)
       \/ ~IsNone(Val(f).stock_lte)
       \/ ~IsNone(Val(f).low_stock)

\* the product passes the lookups the resolver adds to the queryset
Passes(p, f) ==
    /\ TruthyString(f.name_icontains) =>
          icontains(p.name, Val(f.name_icontains))
    /\ TruthyNumber(f.price_gte) => p.price >= Val(f.price_gte)
    /\ TruthyNumber(f.price_lte) => p.price <= Val(f.price_lte)
    /\ TruthyNumber(f.stock_gte) => p.stock >= Val(f.stock_gte)
    /\ TruthyNumber(f.stock_lte) => p.stock <= Val(f.stock_lte)
    /\ TruthyBool(f.low_stock) => p.stock < LowStockThreshold

\* the printable characters of ASCII in the order of their codes
AsciiOrder ==
    <<" ", "!", "\"", "#", "$", "%", "&", "'", "(", ")", "*", "+", ",",
      "-", ".", "/", "0", "1", "2", "3", "4", "5", "6", "7", "8", "9", ":",
      ";", "<", "=", ">", "?", "@", "A", "B", "C", "D", "E", "F", "G", "H",
      "I", "J", "K", "L", "M", "N", "O", "P", "Q", "R", "S", "T", "U", "V",
      "W", "X", "Y", "Z", "[", "\\", "]", "^", "_", "a", "b", "c", "d",
      "e", "f", "g", "h", "i", "j", "k", "l", "m", "n", "o", "p", "q", "r",
      "s", "t", "u", "v", "w", "x", "y", "z", "{", "|", "}", "~">>

\* the place of a character in that order, 0 for a character outside it
CharRank(c) ==
    IF \E k \in 1..Len(AsciiOrder) : AsciiOrder[k] = c
    THEN CHOOSE k \in 1..Len(AsciiOrder) : AsciiOrder[k] = c
    ELSE 0

\* ORDER BY name puts a before b: the texts are compared character by
\* character by code; nothing is said of characters outside ASCII
RECURSIVE NameBefore(_, _)
NameBefore(a, b) ==
    IF a = <<>> THEN b # <<>>
    ELSE IF b = <<>> THEN FALSE
    ELSE IF Head(a) = Head(b) THEN NameBefore(Tail(a), Tail(b))
    ELSE /\ CharRank(Head(a)) # 0
         /\ CharRank(Head(b)) # 0
         /\ CharRank(Head(a)) < CharRank(Head(b))

\* the separator of the names in a lookup
LOOKUP_SEP == "__"

\* item.removeprefix("-")
RemovePrefix(item) ==
    IF Len(item) > 0 /\ SubSeq(item, 1, 1) = "-"
    THEN SubSeq(item, 2, Len(item))
    ELSE item

\* item.split(LOOKUP_SEP): the text is cut at each separator from the left
RECURSIVE Split(_)
Split(item) ==
    LET cuts == {i \in 1..(Len(item) - 1) : SubSeq(item, i, i + 1) = LOOKUP_SEP}
    IN  IF cuts = {} THEN <<item>>
        ELSE LET i == CHOOSE c \in cuts : \A d \in cuts : c <= d
             IN  <<SubSeq(item, 1, i - 1)>>
                    \o Split(SubSeq(item, i + 2, Len(item)))

\* opts.get_field(name) for a column of the model: the class of the field,
\* "none" where the model has no such column; pk is the id
FieldType(model, name) ==
    LET n == IF name = "pk" THEN "id" ELSE name
    IN  CASE n = "id" -> "AutoField"
          [] n = "created_at" -> "DateTimeField"
          [] model = "Customer" /\ n \in {"name", "email", "phone"}
                -> "CharField"
          [] model = "Product" /\ n = "name" -> "CharField"
          [] model = "Product" /\ n = "price" -> "DecimalField"
          [] model = "Product" /\ n = "stock" -> "IntegerField"
          [] model = "Order" /\ n = "total_amount" -> "DecimalField"
          [] model = "Order" /\ n = "order_date" -> "DateTimeField"
          [] OTHER -> "none"

\* opts.get_field(name) for a relation of the model: the model it leads to,
\* "none" where the model has no such relation. Order has the foreign key
\* customer (column customer_id) and the many-to-many products; the other
\* end of each is reached under Django's default name, order
RelatedModel(model, name) ==
    CASE model = "Order" /\ name \in {"customer", "customer_id"}
            -> "Customer"
      [] model = "Order" /\ name = "products" -> "Product"
      [] model \in {"Customer", "Product"} /\ name = "order" -> "Order"
      [] OTHER -> "none"

\* the transforms registered for dates and for times of day
DateTransforms ==
    {"year", "iso_year", "quarter", "month", "week", "day", "week_day",
     "iso_week_day"}
TimeTransforms == {"hour", "minute", "second"}

\* try_transform(lhs, name) along the names left over after the field: a
\* DateTimeField takes the transforms of dates and times and the
\* truncations date and time, no other field of the models takes one
TransformsOK(type, names) ==
    \/ names = <<>>
    \/ /\ type = "DateTimeField"
       /\ \/ /\ Len(names) = 1
             /\ names[1] \in DateTransforms \cup TimeTransforms
                               \cup {"date", "time"}
          \/ /\ Len(names) = 2
             /\ names[1] = "date"
             /\ names[2] \in DateTransforms
          \/ /\ Len(names) = 2
             /\ names[1] = "time"
             /\ names[2] \in TimeTransforms

\* Query.names_to_path and setup_joins: the names are followed from the
\* model through its relations (joins) to a column, and the names left over
\* are transforms of that column. A path that ends at a relation is ordered
\* by the id of the related row. ok is FALSE where Django raises FieldError
RECURSIVE names_to_path(_, _, _)
names_to_path(model, names, joins) ==
    IF names = <<>>
    THEN [ok |-> TRUE, joins |-> joins, model |-> model, field |-> "id",
          transforms |-> <<>>]
    ELSE IF FieldType(model, Head(names)) # "none"
    THEN [ok |-> TransformsOK(FieldType(model, Head(names)), Tail(names)),
          joins |-> joins, model |-> model,
          field |-> IF Head(names) = "pk" THEN "id" ELSE Head(names),
          transforms |-> Tail(names)]
    ELSE IF RelatedModel(model, Head(names)) # "none"
    THEN names_to_path(RelatedModel(model, Head(names)), Tail(names),
                       Append(joins, [model |-> model,
                                      name |-> Head(names)]))
    ELSE [ok |-> FALSE, joins |-> joins, model |-> model, field |-> "id",
          transforms |-> <<>>]

\* the rows a relation of row e leads to
Related(store, join, e) ==
    IF join.model = "Product"
    THEN {store.orders[k] : k \in {j \in 1..Len(store.orders) :
                                      e.id \in store.orders[j].products}}
    ELSE IF join.model = "Customer"
    THEN {store.orders[k] : k \in {j \in 1..Len(store.orders) :
                                      store.orders[j].customer = e.id}}
    ELSE IF join.name = "products"
    THEN {store.products[k] : k \in e.products}
    ELSE {store.customers[e.customer]}

\* LEFT OUTER JOIN along the relations: the chains of related rows that
\* start at row e, one for each combination; a row with nothing related
\* has the one chain of NULLs
RECURSIVE Joined(_, _, _)
Joined(store, joins, e) ==
    IF joins = <<>> THEN {<<>>}
    ELSE IF IsNone(e) \/ Related(store, Head(joins), Val(e)) = {}
    THEN {<<None>> \o t : t \in Joined(store, Tail(joins), None)}
    ELSE UNION {{<<Some(x)>> \o t : t \in Joined(store, Tail(joins), Some(x))} :
                   x \in Related(store, Head(joins), Val(e))}

\* the value ordered by in a joined row: the field of the last row of the
\* chain, NULL (None) where that row is missing or the phone is null;
\* created_at grows with the id
SortKey(path, j) ==
    LET e == IF j.via = <<>> THEN Some(j.row) ELSE j.via[Len(j.via)]
    IN  IF IsNone(e) THEN None
        ELSE IF path.field \in {"id", "created_at"} THEN Some(Val(e).id)
        ELSE IF path.field = "phone" THEN Val(e).phone
        ELSE IF path.field = "name" THEN Some(Val(e).name)
        ELSE IF path.field = "email" THEN Some(Val(e).email)
        ELSE IF path.field = "price" THEN Some(Val(e).price)
        ELSE IF path.field = "stock" THEN Some(Val(e).stock)
        ELSE IF path.field = "total_amount" THEN Some(Val(e).total_amount)
        ELSE Some(Val(e).order_date)

\* key a sorts before key b in ascending order: NULL comes first (sqlite),
\* texts are compared by NameBefore and the other values as numbers
KeyBefore(path, a, b) ==
    IF IsNone(a) THEN ~IsNone(b)
    ELSE IF IsNone(b) THEN FALSE
    ELSE IF FieldType(path.model, path.field) = "CharField"
    THEN NameBefore(Val(a), Val(b))
    ELSE Val(a) < Val(b)

\* the ordering puts joined row p before joined row q; the value of a
\* transform of a timestamp is not part of the state and orders nothing
MustPrecede(p, q, order_by) ==
    LET path == names_to_path("Product", Split(RemovePrefix(order_by)), <<>>)
    IN  /\ order_by # "?"
        /\ path.ok
        /\ path.transforms = <<>>
        /\ IF RemovePrefix(order_by) # order_by
           THEN KeyBefore(path, SortKey(path, q), SortKey(path, p))
           ELSE KeyBefore(path, SortKey(path, p), SortKey(path, q))

\* the sequences that list each row of a set once
RECURSIVE Arrangements(_)
Arrangements(rows) ==
    IF rows = {} THEN {<<>>}
    ELSE UNION {{<<p>> \o r : r \in Arrangements(rows \ {p})} : p \in rows}

\* the rows of the query: each row of the queryset once for each chain of
\* rows that the joins of order_by attach to it
JoinedRows(store, rows, order_by) ==
    LET path == names_to_path("Product", Split(RemovePrefix(order_by)), <<>>)
        joins == IF order_by # "?" /\ path.ok THEN path.joins ELSE <<>>
    IN  UNION {{[row |-> p, via |-> t] :
                   t \in Joined(store, joins, Some(p))} : p \in rows}

\* queryset.order_by(order_by): the orders the rows can come in; rows equal
\* in the value ordered by come in any order, and "?" asks for a random
\* order
order_by_rows(store, rows, order_by) ==
    {[k \in 1..Len(r) |-> r[k].row] :
        r \in {a \in Arrangements(JoinedRows(store, rows, order_by)) :
                 \A i \in 1..Len(a) : \A j \in (i + 1)..Len(a) :
                    ~MustPrecede(a[j], a[i], order_by)}}

\* add_ordering and the compiler accept order_by: "?", or a path of names,
\* with "-" in front for the descending order
Orderable(order_by) ==
    \/ order_by = "?"
    \/ names_to_path("Product", Split(RemovePrefix(order_by)), <<>>).ok

\* Query.resolve_products_filtered(filter=None, order_by="id"): order_by
\* raises FieldError for a text that names no path from Product
resolve_products_filtered(store, filter, order_by) ==
    LET all == {store.products[k] : k \in 1..Len(store.products)}
        queryset == IF TruthyFilter(filter)
                    THEN {p \in all : Passes(p, Val(filter))}
                    ELSE all
    IN  IF ~Orderable(order_by)
        THEN [raised |-> TRUE, results |-> {<<>>}]
        ELSE [raised |-> FALSE,
              results |-> order_by_rows(store, queryset, order_by)]

ProductsFiltered(filter, order_by) ==
    /\ \E out \in {resolve_products_filtered(Store, filter, order_by)} :
          \E result \in out.results :
             last' = [op |-> "products_filtered", filter |-> filter,
                      order_by |-> order_by, raised |-> out.raised,
                      result |-> result]
    /\ UNCHANGED <<customers, products, orders, calls>>

NoFilter ==
    [name_icontains |-> None, price_gte |-> None, price_lte |-> None,
     stock_gte |-> None, stock_lte |-> None, low_stock |-> None]

\* filters on the stock, filters on the price with or without one on the
\* stock, and filters on the name
StockFilters ==
    [name_icontains : {None}, price_gte : {None}, price_lte : {None},
     stock_gte : {None, Some(0), Some(5)},
     stock_lte : {None, Some(0), Some(5)},
     low_stock : {None, Some(TRUE), Some(FALSE)}]

PriceFilters ==
    [name_icontains : {None},
     price_gte : {None, Some(0), Some(25)},
     price_lte : {None, Some(0), Some(10)},
     stock_gte : {None},
     stock_lte : {None, Some(5)},
     low_stock : {None, Some(TRUE)}]

NameFilters ==
    {[NoFilter EXCEPT !.name_icontains = Some(t)] :
        t \in {<<>>, <<"P">>, <<"q">>}}

FilterInputs ==
    {None} \cup {Some(f) : f \in StockFilters \cup PriceFilters \cup NameFilters}

OrderByInputs ==
    {"-id", "price", "-price", "stock", "-stock", "name", "-name", "?",
     "created_at__year", "-created_at__date__month", "order__id",
     "-order__customer__name", "order__products__price",
     "nosuchfield", "", "name__year", "created_at__year__month",
     "order__nosuchfield", "price___x"}

QueryInputs ==
    {[filter |-> f, order_by |-> "id"] : f \in FilterInputs}
    \cup {[filter |-> None, order_by |-> o] : o \in OrderByInputs}

StockedProducts ==
    {[name |-> <<"b">>, price |-> 10, stock |-> Passed(Some(0))],
     [name |-> <<"a">>, price |-> 25, stock |-> Passed(Some(5))],
     [name |-> ProductName, price |-> 10, stock |-> Passed(Some(12))]}

NextFilter ==
    \/ \E p \in StockedProducts : \E f \in ProductFaults :
          CreateProduct(p.name, p.price, p.stock, f)
    \/ \E n \in RestockAmounts : UpdateLowStockProducts(n)
    \/ \E q \in QueryInputs : ProductsFiltered(q.filter, q.order_by)

SpecFilter == Init /\ [][NextFilter]_vars


----------------------------------------------------------------------------
(* Properties *)

\* the emails compared without regard to letter case
SameEmailCI(e1, e2) == lower(e1) = lower(e2)

\* the canonical form of an email: lower-cased, trimmed
Canonical(email) == strip(lower(email))

\* the international format as stated: '+', then 1 to 14 digits, the first
\* of them not zero
StatedIntl(t) ==
    /\ Len(t) >= 1 + 1
    /\ Len(t) <= 1 + 14
    /\ t[1] = "+"
    /\ t[2] \in (Digits \ {"0"})
    /\ \A k \in 3..Len(t) : t[k] \in Digits

\* the dashed format as stated: DDD-DDD-DDDD
StatedDashed(t) ==
    /\ Len(t) = 12
    /\ \A k \in 1..Len(t) :
          IF k \in {4, 8} THEN t[k] = "-" ELSE t[k] \in Digits

StatedPhoneOK(t) == StatedIntl(t) \/ StatedDashed(t)

\* name, email and phone pass the rules as they are stated for
\* validate_customer: the name is not blank, the email has the shape
\* local@domain.tld, and a phone, when one is given, has one of the two
\* stated formats
WellFormed(c) ==
    /\ strip(c.name) # <<>>
    /\ EmailShape(c.email)
    /\ IsNone(c.phone) \/ StatedPhoneOK(Val(c.phone))

IsBulk == last.op = "BulkCreateCustomers"
IsCreateCustomer == last.op = "CreateCustomer"
IsCreateProduct == last.op = "CreateProduct"
IsCreateOrder == last.op = "CreateOrder"

\* the rows of seq after its first n
Added(seq, n) == SubSeq(seq, n + 1, Len(seq))

\* C1: no two customers of the store share an email, compared
\* case-insensitively, whatever CreateCustomer and BulkCreateCustomers calls
\* were made.
C1_UniqueEmails ==
    \A i \in 1..Len(customers) : \A j \in 1..Len(customers) :
        i # j => ~SameEmailCI(customers[i].email, customers[j].email)

\* a call with an email differing only in case from a stored one has
\* failed and left the two customers of the store as they were
C1_Witness ==
    /\ IsCreateCustomer
    /\ last.raised
    /\ customers = last.before.customers
    /\ Len(customers) = 2
    /\ \E i \in 1..Len(customers) :
          /\ SameEmailCI(customers[i].email, last.email)
          /\ customers[i].email # last.email

\* C2: a fail-fast BulkCreateCustomers call is all or nothing: if any item
\* fails, at pre-validation or while writing, the call raises and the store
\* holds no customer of the call; it returns only when every item was
\* created.
C2_FailFastAllOrNothing ==
    (IsBulk /\ last.fail_on_error) =>
        IF last.raised
        THEN customers = last.before.customers
        ELSE /\ last.error_count = 0
             /\ Len(customers) =
                   Len(last.before.customers) + Len(last.customers)

\* a fail-fast call failed while writing its second or a later item, after
\* an earlier item of the same call had been written
C2_Witness ==
    /\ IsBulk /\ last.fail_on_error /\ last.raised
    /\ last.message = "Failed to create customer"
    /\ last.failed_item >= 2
    /\ customers = last.before.customers

\* the customers of the results that report success, in order
RECURSIVE CreatedOf(_)
CreatedOf(results) ==
    IF results = <<>> THEN <<>>
    ELSE (IF results[1].success THEN <<Val(results[1].customer)>> ELSE <<>>)
         \o CreatedOf(SubSeq(results, 2, Len(results)))

\* the canonical emails taken before item i of a best-effort call is tried
TakenBefore(i) ==
    {last.before.customers[k].email : k \in 1..Len(last.before.customers)}
    \cup {Canonical(last.customers[k].email) :
            k \in {j \in 1..(i - 1) : last.results[j].success}}

\* C3: a best-effort BulkCreateCustomers call tries every item in input
\* order whatever failed before it: an item succeeds exactly when it is well
\* formed and its email is not taken, by the store or by an earlier item of
\* the call, and the customers the call adds are exactly those of the items
\* reported successful, a failing item leaving nothing.
C3_BestEffort ==
    (IsBulk /\ ~last.fail_on_error /\ last.customers # <<>>) =>
        /\ ~last.raised
        /\ Len(last.results) = Len(last.customers)
        /\ \A i \in 1..Len(last.customers) :
              /\ last.results[i].input_data = last.customers[i]
              /\ last.results[i].success <=>
                    /\ WellFormed(last.customers[i])
                    /\ Canonical(last.customers[i].email) \notin TakenBefore(i)
        /\ Added(customers, Len(last.before.customers))
              = CreatedOf(last.results)
        /\ SubSeq(customers, 1, Len(last.before.customers))
              = last.before.customers

\* C4: an Order and its product associations are one atomic unit: every
\* stored order has its customer and a non-empty set of existing products,
\* and a CreateOrder call either adds one order with all the products asked
\* for or, when it fails, also after the order row was created, adds nothing.
C4_OrderAtomic ==
    /\ \A i \in 1..Len(orders) :
          /\ orders[i].products # {}
          /\ orders[i].products \subseteq 1..Len(products)
          /\ orders[i].customer \in 1..Len(customers)
    /\ IsCreateOrder =>
          IF last.raised
          THEN orders = last.before.orders
          ELSE /\ Len(orders) = Len(last.before.orders) + 1
               /\ SubSeq(orders, 1, Len(last.before.orders))
                     = last.before.orders
               /\ orders[Len(orders)].products =
                     {ToInt(last.product_ids[j]) :
                        j \in 1..Len(last.product_ids)}

\* a valid request failed between the creation of the order row and the
\* association of its products, on a store that holds an order already and
\* with another CreateOrder call in flight
C4_Witness ==
    /\ IsCreateOrder /\ last.raised /\ last.fault = "set"
    /\ last.message = "Failed to create order"
    /\ orders = last.before.orders
    /\ orders # <<>>
    /\ calls # EmptyBag

\* the email of the last CreateCustomer call is stored, case-insensitively
EmailPresentCI ==
    \E i \in 1..Len(last.before.customers) :
        SameEmailCI(last.before.customers[i].email, last.email)

\* C5: when the email is already in the store case-insensitively,
\* CreateCustomer fails with the "Email already exists" error and leaves the
\* store as it was.
C5_DuplicateEmailRejected ==
    (IsCreateCustomer /\ EmailPresentCI) =>
        /\ last.raised
        /\ \E k \in 1..Len(last.errors) : last.errors[k] = ErrEmailExists
        /\ customers = last.before.customers

\* C6: a CreateCustomer call whose fields are valid by the stated rules and
\* whose email, in its canonical form (lower-cased, trimmed), is not in the
\* store succeeds and adds exactly one customer, with the canonical email
\* and the trimmed name.
C6_CreateCustomerStores ==
    (/\ IsCreateCustomer
     /\ WellFormed([name |-> last.name, email |-> last.email,
                    phone |-> last.phone])
     /\ \A i \in 1..Len(last.before.customers) :
           last.before.customers[i].email # Canonical(last.email)) =>
        /\ ~last.raised
        /\ Len(customers) = Len(last.before.customers) + 1
        /\ SubSeq(customers, 1, Len(last.before.customers))
              = last.before.customers
        /\ customers[Len(customers)].email = Canonical(last.email)
        /\ customers[Len(customers)].name = strip(last.name)
        /\ last.customer = Some(customers[Len(customers)])

\* the ids of the last CreateOrder call that are the id of no stored product
NonExistingIds ==
    {last.product_ids[j] : j \in 1..Len(last.product_ids)}
       \ {ToStr(k) : k \in 1..Len(last.before.products)}

\* the customer_id of the last CreateOrder call is that of no customer
NonExistingCustomer ==
    \/ ~IsNumeric(last.customer_id)
    \/ ToInt(last.customer_id) \notin 1..Len(last.before.customers)

\* C7: a CreateOrder call with an id that is the id of no product fails,
\* its error lists exactly the ids that are the id of no product, and
\* nothing is stored; so do a call with no product id and a call for a
\* customer that does not exist.  The store is taken as it is when the call
\* ends.
C7_InvalidOrderRejected ==
    IsCreateOrder =>
        /\ NonExistingIds # {} =>
              /\ last.raised
              /\ orders = last.before.orders
              /\ \E k \in 1..Len(last.errors) :
                    /\ last.errors[k].msg = ErrInvalidProducts
                    /\ last.errors[k].ids = NonExistingIds
        /\ (last.product_ids = <<>> \/ NonExistingCustomer) =>
              /\ last.raised
              /\ orders = last.before.orders

\* the sum of the prices of the products with the given keys
RECURSIVE PriceSum(_, _)
PriceSum(prods, keys) ==
    IF keys = {} THEN 0
    ELSE LET k == CHOOSE x \in keys : TRUE IN
         prods[k].price + PriceSum(prods, keys \ {k})

\* C8: a successful CreateOrder stores as total_amount the sum of the
\* prices of the distinct products referenced, a repeated id counting once,
\* associates exactly that set of products, and stores the order_date given,
\* or the current time when none is given.
C8_OrderTotals ==
    (IsCreateOrder /\ ~last.raised) =>
        LET keys == {ToInt(last.product_ids[j]) :
                       j \in 1..Len(last.product_ids)}
            order == orders[Len(orders)]
        IN  /\ last.order = Some(order)
            /\ order.products = keys
            /\ order.total_amount = PriceSum(last.before.products, keys)
            /\ order.order_date = IF IsNone(last.order_date)
                                  THEN Val(last.now)
                                  ELSE Val(last.order_date)

\* products priced 10 and 25, no order_date given: total 35, dated now; the
\* stock of the products was raised between the call's reading them and its
\* writing the order
C8_Witness ==
    /\ IsCreateOrder /\ ~last.raised
    /\ Len(last.product_ids) = 2
    /\ last.product_ids[1] # last.product_ids[2]
    /\ IsNone(last.order_date)
    /\ orders[Len(orders)].total_amount = 10 + 25
    /\ orders[Len(orders)].order_date = Val(last.now)
    /\ \A r \in last.rows : r.stock < last.before.products[r.id].stock

\* C9: CreateProduct fails and stores nothing when price <= 0 or stock < 0;
\* otherwise it stores exactly one product, with the stock given or 0 when
\* none is given, unless the store fails the write: the call then fails with
\* a database error and stores nothing. So every stored product has
\* price > 0 and stock >= 0.
C9_ProductRules ==
    /\ \A i \in 1..Len(products) :
          products[i].price > 0 /\ products[i].stock >= 0
    /\ IsCreateProduct =>
          LET given == last.stock # Omitted /\ ~IsNone(last.stock[1])
              value == IF given THEN Val(last.stock[1]) ELSE 0
          IN  IF last.price <= 0 \/ value < 0
              THEN /\ last.raised
                   /\ products = last.before.products
                   /\ ErrDatabase \notin {last.errors[k] :
                                             k \in 1..Len(last.errors)}
              ELSE IF last.fault = "create"
              THEN /\ last.raised
                   /\ last.errors = <<ErrDatabase>>
                   /\ products = last.before.products
              ELSE /\ ~last.raised
                   /\ Len(products) = Len(last.before.products) + 1
                   /\ SubSeq(products, 1, Len(last.before.products))
                         = last.before.products
                   /\ products[Len(products)].price = last.price
                   /\ products[Len(products)].stock = value

\* a product was created with no stock given, after a call with price 0 or
\* less could have been made: its stock is 0
C9_Witness ==
    /\ IsCreateProduct /\ ~last.raised
    /\ last.stock = Omitted
    /\ last.price = 1
    /\ products[Len(products)].stock = 0

\* C10: a BulkCreateCustomers call that returns reports total_count = the
\* number of inputs, success_count + error_count = total_count, one record
\* per input in input order echoing the input, success_count = the number of
\* customers the call added, and success = (error_count = 0); a call with no
\* input fails and changes nothing.
C10_BulkAccounting ==
    IsBulk =>
        /\ last.customers = <<>> =>
              last.raised /\ customers = last.before.customers
        /\ ~last.raised =>
              /\ last.total_count = Len(last.customers)
              /\ last.success_count + last.error_count = last.total_count
              /\ Len(last.results) = Len(last.customers)
              /\ \A i \in 1..Len(last.customers) :
                    last.results[i].input_data = last.customers[i]
              /\ last.success_count =
                    Len(customers) - Len(last.before.customers)
              /\ last.success_count =
                    Cardinality({i \in 1..Len(last.results) :
                                    last.results[i].success})
              /\ last.success <=> (last.error_count = 0)

\* a call returned with some items created and some failed
C10_Witness ==
    /\ IsBulk /\ ~last.raised
    /\ last.success_count > 0 /\ last.error_count > 0
    /\ ~last.success
    /\ last.total_count = MaxBatch

HasError(errors, e) == \E k \in 1..Len(errors) : errors[k] = e

\* what the claim asks of one item with a phone given, rejected being
\* whether the item was refused with the phone-format error
PhoneVerdict(phone, rejected) ==
    ~IsNone(phone) => (rejected <=> ~StatedPhoneOK(Val(phone)))

\* C11: a phone string that is given and matches neither '+' followed by 1
\* to 14 digits (first digit not zero) nor DDD-DDD-DDDD makes CreateCustomer
\* and BulkCreateCustomers reject the item with the phone-format error and
\* store nothing for it; a phone string matching one of the two formats
\* draws no phone-format error.
C11_PhoneFormat ==
    /\ IsCreateCustomer =>
          /\ PhoneVerdict(last.phone, HasError(last.errors, ErrPhone))
          /\ HasError(last.errors, ErrPhone) =>
                customers = last.before.customers
    /\ (IsBulk /\ last.customers # <<>>) =>
          \A i \in 1..Len(last.customers) :
             IF ~last.raised
             THEN /\ PhoneVerdict(last.customers[i].phone,
                                  HasError(last.results[i].error, ErrPhone))
                  /\ HasError(last.results[i].error, ErrPhone) =>
                        ~last.results[i].success
             ELSE (last.message = "Validation failed") =>
                  /\ PhoneVerdict(last.customers[i].phone,
                        HasError(last.validation_errors,
                                 [item |-> i, error |-> ErrPhone]))
                  /\ customers = last.before.customers


\* the errors of the rules an input violates, the rules being those stated
\* for validate_customer: name required, email shape, email not in the
\* store (compared case-insensitively), phone format when a phone is given
RuleErrors(store, c) ==
    (IF strip(c.name) = <<>> THEN {ErrName} ELSE {})
    \cup (IF ~EmailMatch(c.email) THEN {ErrEmailFormat} ELSE {})
    \cup (IF \E i \in 1..Len(store) : SameEmailCI(store[i].email, c.email)
          THEN {ErrEmailExists} ELSE {})
    \cup (IF ~IsNone(c.phone) /\ ~StatedPhoneOK(Val(c.phone))
          THEN {ErrPhone} ELSE {})

\* C12: the validators report every violation, not only the first: a
\* CreateCustomer input gets the error of each rule it violates, a
\* CreateOrder request with a customer that does not exist and product ids
\* that do not exist gets both errors, and the pre-validation of a
\* fail-fast BulkCreateCustomers call reports the violations of every item.
C12_AllViolationsReported ==
    /\ IsCreateCustomer =>
          LET violated == RuleErrors(last.before.customers,
                                     [name |-> last.name,
                                      email |-> last.email,
                                      phone |-> last.phone])
          IN  Cardinality(violated) >= 2 =>
                 /\ last.raised
                 /\ \A e \in violated : HasError(last.errors, e)
    /\ (IsBulk /\ last.fail_on_error) =>
          \A i \in 1..Len(last.customers) :
             \A e \in RuleErrors(last.before.customers, last.customers[i]) :
                /\ last.raised
                /\ last.message = "Validation failed"
                /\ HasError(last.validation_errors,
                            [item |-> i, error |-> e])
    /\ IsCreateOrder =>
          /\ ~CustomerFound(last.before.customers, last.customer_id) =>
                \E k \in 1..Len(last.errors) :
                   last.errors[k].msg = ErrNoCustomer
          /\ NonExistingIds # {} =>
                \E k \in 1..Len(last.errors) :
                   last.errors[k].msg = ErrInvalidProducts



\* the store a call leaves when it runs alone, from start to end
ApplyCall(store, c) ==
    IF c.kind = "CreateCustomer"
    THEN create_customer_safe(store, c.items[1].name, c.items[1].email,
                              c.items[1].phone).store
    ELSE BulkOutcome(store, [customers |-> store], c.items,
                     c.fail_on_error).store

\* the customers of a store without their ids
Rows(store) ==
    {[name |-> store[k].name, email |-> store[k].email,
      phone |-> store[k].phone] : k \in 1..Len(store)}

\* the stores the two calls can leave when one runs after the other
SerialStores ==
    {ApplyCall(ApplyCall(<<>>, calls[p].call), calls[Other(p)].call) :
        p \in {1, 2}}

BothDone == calls # <<>> /\ \A p \in {1, 2} : calls[p].pc = "done"

\* the items of call p that were written and not undone
Persisted(p) ==
    IF calls[p].raised THEN {}
    ELSE {k \in 1..Len(calls[p].results) : calls[p].results[k] = "ok"}

\* C13: two concurrent CreateCustomer or BulkCreateCustomers calls are
\* isolated: however their validation and write steps interleave, the
\* committed customers never share an email, an email carried by both calls
\* is persisted by at most one of them, and once both calls have ended the
\* customers stored are those that one of the two serial orders of the calls
\* leaves.
C13_Isolated ==
    calls # <<>> =>
       /\ \A i \in 1..Len(customers) : \A j \in 1..Len(customers) :
             i # j => ~SameEmailCI(customers[i].email, customers[j].email)
       /\ BothDone =>
             /\ \A k1 \in Persisted(1) : \A k2 \in Persisted(2) :
                   Canonical(calls[1].call.items[k1].email)
                      # Canonical(calls[2].call.items[k2].email)
             /\ \E s \in SerialStores : Rows(customers) = Rows(s)

IsProductsFiltered == last.op = "products_filtered"

\* the product satisfies every field the filter supplies
Satisfies(p, f) ==
    /\ ~IsNone(f.name_icontains) => icontains(p.name, Val(f.name_icontains))
    /\ ~IsNone(f.price_gte) => p.price >= Val(f.price_gte)
    /\ ~IsNone(f.price_lte) => p.price <= Val(f.price_lte)
    /\ ~IsNone(f.stock_gte) => p.stock >= Val(f.stock_gte)
    /\ ~IsNone(f.stock_lte) => p.stock <= Val(f.stock_lte)
    /\ f.low_stock = Some(TRUE) => p.stock < LowStockThreshold

\* C14: products_filtered returns exactly the products that satisfy every
\* supplied filter field, the bounds being inclusive and a bound of 0 being
\* a bound like any other; low_stock false or absent restricts nothing.
C14_FilteredExactly ==
    IsProductsFiltered /\ ~last.raised =>
       LET f == IF IsNone(last.filter) THEN NoFilter ELSE Val(last.filter) IN
       {last.result[k] : k \in 1..Len(last.result)}
          = {products[k] : k \in {j \in 1..Len(products) :
                                     Satisfies(products[j], f)}}

====
